---- MODULE Spec2Model ----
(***************************************************************************)
(* Time-clock state machine and timecard computation of the warehouse      *)
(* backend: DatabaseStorage.clockAction, getEmployeeTimeCard and the       *)
(* /api/clock routes in front of them, over the clock_employees and        *)
(* clock_logs tables.                                                      *)
(***************************************************************************)
EXTENDS Integers, Sequences, FiniteSets, TLC

\* ------------------------------------------------------------------ bounds

\* Largest number of rows of clock_logs Spec and SpecSerial build.
MaxLogs == 2
\* Date.now() ranges over 1..MaxTime in Spec and SpecSerial.
MaxTime == 2
\* The same two bounds for SpecCycle, which follows whole cycles.
MaxCycleLogs == 4
MaxCycleTime == 4
\* Largest number of rows of clock_logs SpecCard starts from.
MaxPunches == 4
\* Largest number of rows of clock_logs SpecCards starts from.
MaxReadPunches == 3
\* Longest time worked, in milliseconds, SpecPay starts from.
MaxWorkedMs == 2500
\* Rows of clock_logs and values of Date.now() in SpecOverlap.
MaxOverlapLogs == 3
MaxOverlapTime == 3
\* Largest currentStock an item of SpecShelf starts with.
MaxStock == 2
\* Largest quantity asked for in a checkout or a check-in.
MaxQuantity == 2
\* Largest number of items in the body of POST /api/checkout.
MaxLines == 2
\* Largest number of ids given out to orders and order items.
MaxUuids == 3
\* Date.now() ranges over 1..MaxShelfTime in SpecShelf.
MaxShelfTime == 2

\* ------------------------------------------------------------------ values

EmpIds == {"e1", "e2"}
\* The employee the interleaved requests of Spec are about.
HotIds == {"e1"}
Procs == {1, 2}

\* What the status column can hold: the three enum values, NULL (the column
\* is nullable) and any other string (varchar, no CHECK constraint).
NULL == "NULL"
Statuses == {"inactive", "working", "on-lunch", NULL, "bogus"}
\* What insertClockEmployeeSchema lets through for status (zod enum, nullable).
InsertStatuses == {"inactive", "working", "on-lunch", NULL}
\* payRate, numeric(10,2), in cents.
PayRates == {2500}

ItemIds == {"i1", "i2"}
\* An id of no row of items.
NoItem == "i9"
\* orderId left out of a request body.
NoOrder == 0
NoItemRow == [currentStock |-> 0, reservedStock |-> 0, status |-> "-"]
\* No request on the stock served yet.
NoAnswer == [route |-> "", code |-> 0, message |-> "", itemId |-> NoItem,
             quantity |-> 0, item |-> NoItemRow]

NoId == ""
NoStatus == "-"
NoType == "none"
NoRow == [status |-> NoStatus, payRate |-> 0]
NoResult == [code |-> 0]
\* No timecard asked for yet.
NoCard == [ok |-> FALSE, message |-> ""]
\* No export asked for yet: employees is the list getClockEmployees gave,
\* next the place in it of the loop, cur the employee getEmployeeTimeCard
\* read, exportData the entries pushed.
NoExport == [pc |-> "idle", startDate |-> 0, endDate |-> 0, employees |-> << >>,
             next |-> 1, cur |-> NoRow, exportData |-> << >>, result |-> NoResult]

VARIABLES
    employees,  \* clock_employees: id -> [status, payRate], for the ids present
    clockLogs,  \* clock_logs in insertion order: [employeeId, type, timestamp]
    now,        \* the wall clock Date.now() reads
    pc,         \* per request of POST /api/clock/action: where clockAction is
    emp,        \* its employeeId argument
    stat,       \* employee.status as clockAction read it
    last,       \* type of lastLog as clockAction read it (NoType: none)
    upd,        \* updatedEmployee, the row updateClockEmployee returned
    result,     \* the response: [code, message] or [code, employee, status, log]
    since,      \* history: per employee, the calls completed since a call last
                \* found the employee inactive, that call included (0: none yet)
    mono,       \* history: each of those calls stamped its punch later than
                \* every punch the employee had
    card,       \* the last answer of getEmployeeTimeCard
    export,     \* the request of GET /api/clock/export: where exportAllHours
                \* is, its locals and its answer
    removed,    \* the last answer of DELETE /api/clock/employees/:id
    items,      \* items by id: [currentStock, reservedStock, status]
    orders,     \* the rows of orders: [id, orderNumber]
    orderItems, \* the rows of order_items: [id, orderId, itemId, quantity]
    orderActivities,  \* order_activities in insertion order
    itemTransactions, \* item_transactions in insertion order
    uuids,      \* how many ids gen_random_uuid() has given out
    answer      \* the last request on the stock served: its route, its item
                \* id and quantity, the item row it read first, and the code
                \* and message of its response

\* The tables and the request of the checkout and check-in routes.
shelf == <<items, orders, orderItems, orderActivities, itemTransactions, uuids, answer>>

vars == <<employees, clockLogs, now, pc, emp, stat, last, upd, result, since, mono,
          card, export, removed, shelf>>
\* What the requests of POST /api/clock/action do not touch.
aside == <<since, mono, card, export, removed, shelf>>

\* ------------------------------------------------------- clockAction, pure

\* Decide with the look-back testing for lunch-out instead of lunch-in.
DecideLookbackLunchOut(status, lastType) ==
    CASE status = "inactive" ->
            [ok |-> TRUE, newStatus |-> "working", logType |-> "clock-in",
             statusMessage |-> "Clocked In"]
      [] status = "working" /\ lastType = "lunch-out" ->
            [ok |-> TRUE, newStatus |-> "inactive", logType |-> "clock-out",
             statusMessage |-> "Clocked Out"]
      [] status = "working" /\ lastType # "lunch-out" ->
            [ok |-> TRUE, newStatus |-> "on-lunch", logType |-> "lunch-out",
             statusMessage |-> "Started Lunch"]
      [] status = "on-lunch" ->
            [ok |-> TRUE, newStatus |-> "working", logType |-> "lunch-in",
             statusMessage |-> "Ended Lunch"]
      [] OTHER ->
            [ok |-> FALSE, newStatus |-> NoStatus, logType |-> NoType,
             statusMessage |-> "Invalid employee status"]

\* Decide with no default branch: any other status is taken as inactive.
DecideDefaultInactive(status, lastType) ==
    CASE status = "working" /\ lastType = "lunch-in" ->
            [ok |-> TRUE, newStatus |-> "inactive", logType |-> "clock-out",
             statusMessage |-> "Clocked Out"]
      [] status = "working" /\ lastType # "lunch-in" ->
            [ok |-> TRUE, newStatus |-> "on-lunch", logType |-> "lunch-out",
             statusMessage |-> "Started Lunch"]
      [] status = "on-lunch" ->
            [ok |-> TRUE, newStatus |-> "working", logType |-> "lunch-in",
             statusMessage |-> "Ended Lunch"]
      [] OTHER ->
            [ok |-> TRUE, newStatus |-> "working", logType |-> "clock-in",
             statusMessage |-> "Clocked In"]

\* Decide clocking out from working unless the last punch is a lunch-out.
DecideClockOutAtOnce(status, lastType) ==
    CASE status = "inactive" ->
            [ok |-> TRUE, newStatus |-> "working", logType |-> "clock-in",
             statusMessage |-> "Clocked In"]
      [] status = "working" /\ lastType = "lunch-out" ->
            [ok |-> TRUE, newStatus |-> "on-lunch", logType |-> "lunch-out",
             statusMessage |-> "Started Lunch"]
      [] status = "working" /\ lastType # "lunch-out" ->
            [ok |-> TRUE, newStatus |-> "inactive", logType |-> "clock-out",
             statusMessage |-> "Clocked Out"]
      [] status = "on-lunch" ->
            [ok |-> TRUE, newStatus |-> "working", logType |-> "lunch-in",
             statusMessage |-> "Ended Lunch"]
      [] OTHER ->
            [ok |-> FALSE, newStatus |-> NoStatus, logType |-> NoType,
             statusMessage |-> "Invalid employee status"]

\* The switch of clockAction: (employee.status, lastLog.type) to
\* newStatus, logType, statusMessage; ok = FALSE is the default branch.
Decide(status, lastType) ==
    CASE status = "inactive" ->
            [ok |-> TRUE, newStatus |-> "working", logType |-> "clock-in",
             statusMessage |-> "Clocked In"]
      [] status = "working" /\ lastType = "lunch-in" ->
            [ok |-> TRUE, newStatus |-> "inactive", logType |-> "clock-out",
             statusMessage |-> "Clocked Out"]
      [] status = "working" /\ lastType # "lunch-in" ->
            [ok |-> TRUE, newStatus |-> "on-lunch", logType |-> "lunch-out",
             statusMessage |-> "Started Lunch"]
      [] status = "on-lunch" ->
            [ok |-> TRUE, newStatus |-> "working", logType |-> "lunch-in",
             statusMessage |-> "Ended Lunch"]
      [] OTHER ->
            [ok |-> FALSE, newStatus |-> NoStatus, logType |-> NoType,
             statusMessage |-> "Invalid employee status"]

\* Positions in logs of the rows of employee id.
RowsOf(logs, id) == {i \in 1..Len(logs) : logs[i].employeeId = id}

\* LastLogTypes with the sort ascending: a row with the least timestamp.
LastLogTypesOldest(logs, id) ==
    IF RowsOf(logs, id) = {} THEN {NoType}
    ELSE {logs[i].type : i \in {j \in RowsOf(logs, id) :
                \A k \in RowsOf(logs, id) : logs[k].timestamp >= logs[j].timestamp}}

\* getClockLogs(id) then filter, sort by timestamp descending, [0]: a row of
\* the employee with the greatest timestamp. ORDER BY leaves the order of
\* equal timestamps open and the sort is stable, so any of them can be first.
LastLogTypes(logs, id) ==
    IF RowsOf(logs, id) = {} THEN {NoType}
    ELSE {logs[i].type : i \in {j \in RowsOf(logs, id) :
                \A k \in RowsOf(logs, id) : logs[k].timestamp <= logs[j].timestamp}}

InFlight == {p \in Procs : pc[p] \in {"lookup", "update", "insert"}}

\* ------------------------------------------------- POST /api/clock/action

Fail(p, message) ==
    /\ pc' = [pc EXCEPT ![p] = "done"]
    /\ result' = [result EXCEPT ![p] = [code |-> 400, message |-> message]]

\* ClockRead without the not-found throw: the call goes on to the update.
ClockReadNoCheck(p, id) ==
    /\ pc[p] = "idle"
    /\ emp' = [emp EXCEPT ![p] = id]
    /\ UNCHANGED <<employees, clockLogs, now, last, upd, aside>>
    /\ IF id = NoId
       THEN Fail(p, "Employee ID is required") /\ UNCHANGED stat
       ELSE IF id \notin DOMAIN employees
       THEN pc' = [pc EXCEPT ![p] = "update"] /\ UNCHANGED <<stat, result>>
       ELSE /\ stat' = [stat EXCEPT ![p] = employees[id].status]
            /\ IF employees[id].status = "working"
               THEN pc' = [pc EXCEPT ![p] = "lookup"] /\ UNCHANGED result
               ELSE IF Decide(employees[id].status, NoType).ok
               THEN pc' = [pc EXCEPT ![p] = "update"] /\ UNCHANGED result
               ELSE Fail(p, "Invalid employee status")

\* The route up to clockAction's first await and the synchronous code after
\* it: the id check, getClockEmployee, the not-found throw and the switch.
ClockRead(p, id) ==
    /\ pc[p] = "idle"
    /\ emp' = [emp EXCEPT ![p] = id]
    /\ UNCHANGED <<employees, clockLogs, now, last, upd, aside>>
    /\ IF id = NoId
       THEN Fail(p, "Employee ID is required") /\ UNCHANGED stat
       ELSE IF id \notin DOMAIN employees
       THEN Fail(p, "Employee not found") /\ UNCHANGED stat
       ELSE /\ stat' = [stat EXCEPT ![p] = employees[id].status]
            /\ IF employees[id].status = "working"
               THEN pc' = [pc EXCEPT ![p] = "lookup"] /\ UNCHANGED result
               ELSE IF Decide(employees[id].status, NoType).ok
               THEN pc' = [pc EXCEPT ![p] = "update"] /\ UNCHANGED result
               ELSE Fail(p, "Invalid employee status")

\* ClockLookup taking the employee's first punch for lastLog.
ClockLookupFirst(p) ==
    /\ pc[p] = "lookup"
    /\ last' = [last EXCEPT ![p] =
            IF RowsOf(clockLogs, emp[p]) = {} THEN NoType
            ELSE clockLogs[CHOOSE i \in RowsOf(clockLogs, emp[p]) :
                    \A j \in RowsOf(clockLogs, emp[p]) : i <= j].type]
    /\ pc' = [pc EXCEPT ![p] = "update"]
    /\ UNCHANGED <<employees, clockLogs, now, emp, stat, upd, result, aside>>

\* case 'working': await getClockLogs, pick lastLog.
ClockLookup(p) ==
    /\ pc[p] = "lookup"
    /\ \E t \in LastLogTypes(clockLogs, emp[p]) : last' = [last EXCEPT ![p] = t]
    /\ pc' = [pc EXCEPT ![p] = "update"]
    /\ UNCHANGED <<employees, clockLogs, now, emp, stat, upd, result, aside>>

\* ClockUpdate deciding from the row as it is at the write, not as read.
ClockUpdateFromRow(p) ==
    /\ pc[p] = "update"
    /\ UNCHANGED <<clockLogs, now, emp, stat, last, aside>>
    /\ IF emp[p] \in DOMAIN employees
       THEN /\ employees' = [employees EXCEPT
                  ![emp[p]].status = Decide(@, last[p]).newStatus]
            /\ upd' = [upd EXCEPT ![p] = employees'[emp[p]]]
            /\ pc' = [pc EXCEPT ![p] = "insert"]
            /\ UNCHANGED result
       ELSE /\ Fail(p, "Failed to update employee status")
            /\ UNCHANGED <<employees, upd>>

\* ClockUpdate writing the punch in the same statement as the status.
ClockUpdateWithPunch(p) ==
    /\ pc[p] = "update"
    /\ UNCHANGED <<now, emp, stat, last, aside>>
    /\ IF emp[p] \in DOMAIN employees
       THEN /\ employees' = [employees EXCEPT
                  ![emp[p]].status = Decide(stat[p], last[p]).newStatus]
            /\ clockLogs' = Append(clockLogs,
                  [employeeId |-> emp[p], type |-> Decide(stat[p], last[p]).logType,
                   timestamp |-> now])
            /\ upd' = [upd EXCEPT ![p] = employees'[emp[p]]]
            /\ pc' = [pc EXCEPT ![p] = "insert"]
            /\ UNCHANGED result
       ELSE /\ Fail(p, "Failed to update employee status")
            /\ UNCHANGED <<employees, upd, clockLogs>>

\* ClockUpdate with the two writes in the other order: the punch goes in
\* here and the status is left for later.
ClockUpdatePunchFirst(p) ==
    /\ pc[p] = "update"
    /\ UNCHANGED <<employees, now, emp, stat, last, aside>>
    /\ IF emp[p] \in DOMAIN employees
       THEN /\ clockLogs' = Append(clockLogs,
                  [employeeId |-> emp[p], type |-> Decide(stat[p], last[p]).logType,
                   timestamp |-> now])
            /\ upd' = [upd EXCEPT ![p] =
                  [employees[emp[p]] EXCEPT !.status = Decide(stat[p], last[p]).newStatus]]
            /\ pc' = [pc EXCEPT ![p] = "insert"]
            /\ UNCHANGED result
       ELSE /\ Fail(p, "Failed to update employee status")
            /\ UNCHANGED <<clockLogs, upd>>

\* ClockUpdate with the write of the status left out: the row is read back
\* as it is.
ClockUpdateSkipped(p) ==
    /\ pc[p] = "update"
    /\ UNCHANGED <<employees, clockLogs, now, emp, stat, last, aside>>
    /\ IF emp[p] \in DOMAIN employees
       THEN /\ upd' = [upd EXCEPT ![p] = employees[emp[p]]]
            /\ pc' = [pc EXCEPT ![p] = "insert"]
            /\ UNCHANGED result
       ELSE /\ Fail(p, "Failed to update employee status")
            /\ UNCHANGED upd

\* await updateClockEmployee(employeeId, {status: newStatus}).
ClockUpdate(p) ==
    /\ pc[p] = "update"
    /\ UNCHANGED <<clockLogs, now, emp, stat, last, aside>>
    /\ IF emp[p] \in DOMAIN employees
       THEN /\ employees' = [employees EXCEPT
                  ![emp[p]].status = Decide(stat[p], last[p]).newStatus]
            /\ upd' = [upd EXCEPT ![p] = employees'[emp[p]]]
            /\ pc' = [pc EXCEPT ![p] = "insert"]
            /\ UNCHANGED result
       ELSE /\ Fail(p, "Failed to update employee status")
            /\ UNCHANGED <<employees, upd>>

\* await db.insert(clockLogs) with timestamp Date.now(), then the return.
\* employee_id references clock_employees: the insert of a row for a
\* deleted employee throws.
Inserted(p) ==
    /\ pc[p] = "insert"
    /\ UNCHANGED <<employees, now, emp, stat, last, upd, card, export, removed, shelf>>
    /\ IF emp[p] \in DOMAIN employees
       THEN LET log == [employeeId |-> emp[p],
                        type |-> Decide(stat[p], last[p]).logType,
                        timestamp |-> now]
            IN /\ clockLogs' = Append(clockLogs, log)
               /\ pc' = [pc EXCEPT ![p] = "done"]
               /\ result' = [result EXCEPT ![p] =
                     [code |-> 200, employee |-> upd[p],
                      status |-> Decide(stat[p], last[p]).statusMessage,
                      log |-> log]]
       ELSE /\ Fail(p, "violates foreign key constraint")
            /\ UNCHANGED clockLogs

ClockInsert(p) == Inserted(p) /\ UNCHANGED <<since, mono>>

\* The insert, with the history of the employee's cycle kept: a call that
\* read inactive starts the count, every later call adds to it.
ClockInsertTracked(p) ==
    /\ Inserted(p)
    /\ LET e == emp[p]
           later == \A i \in RowsOf(clockLogs, e) : clockLogs[i].timestamp < now
       IN IF e \notin DOMAIN employees THEN UNCHANGED <<since, mono>>
          ELSE IF stat[p] = "inactive"
          THEN since' = [since EXCEPT ![e] = 1] /\ mono' = [mono EXCEPT ![e] = later]
          ELSE IF since[e] > 0
          THEN /\ since' = [since EXCEPT ![e] = @ + 1]
               /\ mono' = [mono EXCEPT ![e] = @ /\ later]
          ELSE UNCHANGED <<since, mono>>

\* The server process stops between the two writes of a call.
Crash(p) ==
    /\ pc[p] = "insert"
    /\ pc' = [pc EXCEPT ![p] = "stopped"]
    /\ UNCHANGED <<employees, clockLogs, now, emp, stat, last, upd, result, aside>>

\* The response is sent (or the stopped call is gone); the slot takes the
\* next request.
Finish(p) ==
    /\ pc[p] \in {"done", "stopped"}
    /\ pc' = [pc EXCEPT ![p] = "idle"]
    /\ emp' = [emp EXCEPT ![p] = NoId]
    /\ stat' = [stat EXCEPT ![p] = NoStatus]
    /\ last' = [last EXCEPT ![p] = NoType]
    /\ upd' = [upd EXCEPT ![p] = NoRow]
    /\ result' = [result EXCEPT ![p] = NoResult]
    /\ UNCHANGED <<employees, clockLogs, now, aside>>

\* Date.now() is the wall clock: it can stand still between two calls, move
\* on, or be set back.
Tick(max) ==
    /\ \E t \in 1..max : t # now /\ now' = t
    /\ UNCHANGED <<employees, clockLogs, pc, emp, stat, last, upd, result, aside>>

\* ------------------------------------------------ /api/clock/employees

\* POST: insertClockEmployeeSchema.parse, createClockEmployee. status is
\* optional (default 'inactive'); a duplicate id violates the primary key.
CreateEmployee(id, status, payRate) ==
    /\ id \notin DOMAIN employees
    /\ employees' = [e \in DOMAIN employees \cup {id} |->
            IF e = id THEN [status |-> status, payRate |-> payRate]
            ELSE employees[e]]
    /\ UNCHANGED <<clockLogs, now, pc, emp, stat, last, upd, result, aside>>

\* The bodies of PATCH: any subset of the fields, any value.
PatchBodies ==
    {[status |-> s] : s \in Statuses} \cup {[payRate |-> r] : r \in PayRates}

\* PATCH: updateClockEmployee(req.params.id, req.body), the body unchecked.
PatchEmployee(id, updates) ==
    /\ id \in DOMAIN employees
    /\ employees' = [employees EXCEPT ![id] =
            [f \in DOMAIN @ |-> IF f \in DOMAIN updates THEN updates[f] ELSE @[f]]]
    /\ UNCHANGED <<clockLogs, now, pc, emp, stat, last, upd, result, aside>>

\* DeleteEmployee with ON DELETE CASCADE: the employee's punches go too.
DeleteEmployeeCascade(id) ==
    /\ id \in DOMAIN employees
    /\ employees' = [e \in DOMAIN employees \ {id} |-> employees[e]]
    /\ clockLogs' = SelectSeq(clockLogs, LAMBDA r : r.employeeId # id)
    /\ UNCHANGED <<now, pc, emp, stat, last, upd, result, aside>>

\* DELETE: deleteClockEmployee. clock_logs.employee_id references the row
\* with no ON DELETE action, so the delete of an employee with punches throws.
DeleteEmployee(id) ==
    /\ id \in DOMAIN employees
    /\ RowsOf(clockLogs, id) = {}
    /\ employees' = [e \in DOMAIN employees \ {id} |-> employees[e]]
    /\ UNCHANGED <<clockLogs, now, pc, emp, stat, last, upd, result, aside>>

\* The DELETE route with its answer: 204, 404 when no row was deleted, 500
\* when deleteClockEmployee throws on the foreign key of clock_logs.
DeleteRequest(id) ==
    /\ UNCHANGED <<clockLogs, now, pc, emp, stat, last, upd, result, since, mono,
                   card, export, shelf>>
    /\ IF id \notin DOMAIN employees
       THEN /\ removed' = [code |-> 404, message |-> "Employee not found"]
            /\ UNCHANGED employees
       ELSE IF RowsOf(clockLogs, id) # {}
       THEN /\ removed' = [code |-> 500, message |-> "Failed to delete employee"]
            /\ UNCHANGED employees
       ELSE /\ removed' = [code |-> 204, message |-> ""]
            /\ employees' = [e \in DOMAIN employees \ {id} |-> employees[e]]

\* ------------------------------------------------- getEmployeeTimeCard

\* 1000 * 60 * 60, and the length of the UTC day toISOString cuts at.
HourMs == 3600000
DayMs == 86400000
\* null, for clockInTime and lunchOutTime.
Null == -1

\* if (x): null and 0 are falsy.
Truthy(x) == x # Null /\ x # 0

\* new Date(timestamp).toISOString().split('T')[0]: the UTC day, kept as the
\* number of the day since 1970-01-01.
DateOf(timestamp) == timestamp \div DayMs

\* Selected with the end of the range left out: timestamp < end.
SelectedBeforeEnd(logs, id, start, end) ==
    {i \in 1..Len(logs) : /\ logs[i].employeeId = id
                          /\ logs[i].timestamp >= start
                          /\ logs[i].timestamp < end}

\* The rows the select keeps: of the employee, start <= timestamp <= end.
Selected(logs, id, start, end) ==
    {i \in 1..Len(logs) : /\ logs[i].employeeId = id
                          /\ logs[i].timestamp >= start
                          /\ logs[i].timestamp <= end}

\* orderBy(clockLogs.timestamp): the rows S in an order of ascending
\* timestamp; rows of equal timestamp come in any order.
Orderings(logs, S) ==
    {f \in [1..Cardinality(S) -> S] :
        \A a, b \in 1..Cardinality(S) :
            a < b => f[a] # f[b] /\ logs[f[a]].timestamp <= logs[f[b]].timestamp}

\* ReplayStep with lunch-in not moving clockInTime to the end of the lunch.
ReplayStepKeepsClockIn(st, log) ==
    CASE log.type = "clock-in" -> [st EXCEPT !.clockInTime = log.timestamp]
      [] log.type = "lunch-out" ->
            IF Truthy(st.clockInTime)
            THEN [st EXCEPT !.workingTime = @ + (log.timestamp - st.clockInTime),
                            !.lunchOutTime = log.timestamp]
            ELSE st
      [] log.type = "lunch-in" ->
            IF Truthy(st.lunchOutTime)
            THEN [st EXCEPT !.lunchTime = @ + (log.timestamp - st.lunchOutTime)]
            ELSE st
      [] log.type = "clock-out" ->
            IF Truthy(st.clockInTime)
            THEN [st EXCEPT !.workingTime = @ + (log.timestamp - st.clockInTime)]
            ELSE st
      [] OTHER -> st

\* One turn of the loop over a day's logs.
ReplayStep(st, log) ==
    CASE log.type = "clock-in" -> [st EXCEPT !.clockInTime = log.timestamp]
      [] log.type = "lunch-out" ->
            IF Truthy(st.clockInTime)
            THEN [st EXCEPT !.workingTime = @ + (log.timestamp - st.clockInTime),
                            !.lunchOutTime = log.timestamp]
            ELSE st
      [] log.type = "lunch-in" ->
            IF Truthy(st.lunchOutTime)
            THEN [st EXCEPT !.lunchTime = @ + (log.timestamp - st.lunchOutTime),
                            !.clockInTime = log.timestamp]
            ELSE st
      [] log.type = "clock-out" ->
            IF Truthy(st.clockInTime)
            THEN [st EXCEPT !.workingTime = @ + (log.timestamp - st.clockInTime)]
            ELSE st
      [] OTHER -> st

RECURSIVE ReplayFrom(_, _, _)
ReplayFrom(dayLogs, i, st) ==
    IF i > Len(dayLogs) THEN st
    ELSE ReplayFrom(dayLogs, i + 1, ReplayStep(st, dayLogs[i]))

\* Replay crediting a segment left open up to the end of the UTC day.
ReplayCreditsOpen(dayLogs) ==
    LET st == ReplayFrom(dayLogs, 1, [workingTime |-> 0, lunchTime |-> 0,
                                      clockInTime |-> Null, lunchOutTime |-> Null])
        lastLog == dayLogs[Len(dayLogs)]
    IN IF lastLog.type \in {"clock-in", "lunch-in"} /\ Truthy(st.clockInTime)
       THEN [st EXCEPT !.workingTime =
                @ + ((DateOf(lastLog.timestamp) + 1) * DayMs - st.clockInTime)]
       ELSE st

\* The loop over one day's logs, from both cursors null.
Replay(dayLogs) ==
    ReplayFrom(dayLogs, 1, [workingTime |-> 0, lunchTime |-> 0,
                            clockInTime |-> Null, lunchOutTime |-> Null])

\* DailyReport with the cursors kept from one day to the next: a segment
\* across midnight counts for the day of the punch that closes it.
DailyReportCarrying(rows) ==
    [d \in {DateOf(rows[i].timestamp) : i \in 1..Len(rows)} |->
        LET unset == [workingTime |-> 0, lunchTime |-> 0,
                      clockInTime |-> Null, lunchOutTime |-> Null]
            before == ReplayFrom(SelectSeq(rows, LAMBDA r : DateOf(r.timestamp) < d), 1, unset)
            through == ReplayFrom(SelectSeq(rows, LAMBDA r : DateOf(r.timestamp) <= d), 1, unset)
        IN [logs |-> SelectSeq(rows, LAMBDA r : DateOf(r.timestamp) = d),
            workingTime |-> through.workingTime - before.workingTime,
            lunchTime |-> through.lunchTime - before.lunchTime]]

\* dailyReport after both loops: per date the logs and the two times.
DailyReport(rows) ==
    [d \in {DateOf(rows[i].timestamp) : i \in 1..Len(rows)} |->
        LET dayLogs == SelectSeq(rows, LAMBDA r : DateOf(r.timestamp) = d)
            times == Replay(dayLogs)
        IN [logs |-> dayLogs,
            workingTime |-> times.workingTime,
            lunchTime |-> times.lunchTime]]

\* TotalFrom adding the lunch of each day too.
RECURSIVE TotalFromWithLunch(_, _, _)
TotalFromWithLunch(report, dates, total) ==
    IF dates = {} THEN total
    ELSE LET d == CHOOSE x \in dates : \A y \in dates : x <= y
         IN TotalFromWithLunch(report, dates \ {d},
                total + report[d].workingTime + report[d].lunchTime)

\* totalWorkingTime += workingTime, date after date in the order of the keys.
RECURSIVE TotalFrom(_, _, _)
TotalFrom(report, dates, total) ==
    IF dates = {} THEN total
    ELSE LET d == CHOOSE x \in dates : \A y \in dates : x <= y
         IN TotalFrom(report, dates \ {d}, total + report[d].workingTime)

\* ---- Number: IEEE 754 binary64, round to nearest, ties to even
\*
\* A positive double is [m, e]: the value m * 2^e with 2^52 <= m < 2^53, m a
\* big natural kept as limbs of LimbBits bits, least significant first.
LimbBits == 14
Limb == 16384
MantissaBits == 53
\* The fraction of a quotient is worked out to FractionLimbs limbs, enough
\* for 53 bits and a guard bit behind the leading zeros of 1 / 3600000.
FractionLimbs == 6

RECURSIVE Pow2(_)
Pow2(n) == IF n = 0 THEN 1 ELSE 2 * Pow2(n - 1)

RECURSIVE IntBits(_)
IntBits(n) == IF n = 0 THEN 0 ELSE 1 + IntBits(n \div 2)

BigOfInt(n) == <<n % Limb, (n \div Limb) % Limb, n \div (Limb * Limb)>>
BigToInt(x) == x[1] + (IF Len(x) > 1 THEN x[2] * Limb ELSE 0)
                    + (IF Len(x) > 2 THEN x[3] * Limb * Limb ELSE 0)
LimbAt(x, i) == IF i \in 1..Len(x) THEN x[i] ELSE 0

\* The number of bits of x, 0 for 0.
BigBits(x) ==
    LET nz == {i \in 1..Len(x) : x[i] # 0}
    IN IF nz = {} THEN 0
       ELSE LET top == CHOOSE i \in nz : \A j \in nz : j <= i
            IN (top - 1) * LimbBits + IntBits(x[top])

\* Bit k of x, bit 0 the least significant.
BigBit(x, k) == (LimbAt(x, (k \div LimbBits) + 1) \div Pow2(k % LimbBits)) % 2

\* floor(x / 2^s).
BigShiftRight(x, s) ==
    LET q == s \div LimbBits
        r == s % LimbBits
    IN [i \in 1..Len(x) |->
            (LimbAt(x, i + q) \div Pow2(r))
            + (LimbAt(x, i + q + 1) % Pow2(r)) * Pow2(LimbBits - r)]

\* The s lowest bits of x are all 0.
BigLowZero(x, s) ==
    /\ \A i \in 1..Len(x) : i <= s \div LimbBits => x[i] = 0
    /\ LimbAt(x, (s \div LimbBits) + 1) % Pow2(s % LimbBits) = 0

\* Limbs from sums that may exceed a limb, the carries passed upwards.
RECURSIVE BigCarry(_, _, _)
BigCarry(raw, i, carry) ==
    IF i > Len(raw)
    THEN IF carry = 0 THEN << >>
         ELSE <<carry % Limb>> \o BigCarry(raw, i, carry \div Limb)
    ELSE <<(raw[i] + carry) % Limb>> \o BigCarry(raw, i + 1, (raw[i] + carry) \div Limb)

RECURSIVE BigColumn(_, _, _, _)
BigColumn(x, y, k, i) ==
    IF i > Len(x) THEN 0
    ELSE x[i] * LimbAt(y, k - i + 1) + BigColumn(x, y, k, i + 1)

BigMul(x, y) ==
    BigCarry([k \in 1..(Len(x) + Len(y) - 1) |-> BigColumn(x, y, k, 1)], 1, 0)

Zero == [m |-> <<0, 0, 0, 0>>, e |-> 0]

\* The double nearest to (x + f) * 2^e, where 0 <= f < 1 and sticky tells
\* whether f > 0; x = 0 or x has more than 53 bits.
RoundToDouble(x, sticky, e) ==
    IF BigBits(x) = 0 THEN Zero
    ELSE LET s == BigBits(x) - MantissaBits
             m0 == BigShiftRight(x, s)
             guard == BigBit(x, s - 1) = 1
             rest == sticky \/ ~BigLowZero(x, s - 1)
             up == guard /\ (rest \/ m0[1] % 2 = 1)
             m1 == IF up
                   THEN BigCarry([i \in 1..Len(m0) |-> m0[i] + (IF i = 1 THEN 1 ELSE 0)], 1, 0)
                   ELSE m0
         IN IF BigBits(m1) > MantissaBits
            THEN [m |-> SubSeq(BigShiftRight(m1, 1), 1, 4), e |-> e + s + 1]
            ELSE [m |-> SubSeq(m1, 1, 4), e |-> e + s]

\* k limbs of the fraction r / d, least significant first, and what is left.
RECURSIVE FracLimbs(_, _, _)
FracLimbs(r, d, k) ==
    IF k = 0 THEN [limbs |-> << >>, rem |-> r]
    ELSE LET hi == (r * 128) \div d
             r1 == (r * 128) % d
             lo == (r1 * 128) \div d
             r2 == (r1 * 128) % d
             tail == FracLimbs(r2, d, k - 1)
         IN [limbs |-> Append(tail.limbs, hi * 128 + lo), rem |-> tail.rem]

\* a / d in doubles, for naturals a < 2^31 and 0 < d < 2^24 (both exact).
NumberDivide(a, d) ==
    LET f == FracLimbs(a % d, d, FractionLimbs)
    IN RoundToDouble(f.limbs \o BigOfInt(a \div d), f.rem # 0,
                     -(FractionLimbs * LimbBits))

\* x * y in doubles.
NumberMultiply(x, y) ==
    IF x = Zero \/ y = Zero THEN Zero
    ELSE RoundToDouble(BigMul(x.m, y.m), FALSE, x.e + y.e)

\* parseFloat of a numeric(10,2) string: the double nearest to cents / 100.
ParseFloat(cents) == NumberDivide(cents, 100)

\* The integer n of x.toFixed(2): n / 100 - x as close to zero as possible,
\* the larger n of two. It is floor((floor(200 x) + 1) / 2).
ToFixedCents(x) ==
    IF x = Zero THEN 0
    ELSE (BigToInt(BigShiftRight(BigMul(x.m, <<200>>), -x.e)) + 1) \div 2

\* The string of x.toFixed(2) from that integer: "200.00".
ToFixed(n) ==
    ToString(n \div 100) \o "." \o ToString((n % 100) \div 10) \o ToString(n % 10)

\* (totalWorkingTime / (1000 * 60 * 60)) * parseFloat(employee.payRate).
TotalPay(totalWorkingTime, payRate) ==
    NumberMultiply(NumberDivide(totalWorkingTime, HourMs), ParseFloat(payRate))

\* The sum of lunchTime over the entries of a dailyReport.
RECURSIVE SumLunch(_, _)
SumLunch(report, dates) ==
    IF dates = {} THEN 0
    ELSE LET d == CHOOSE x \in dates : TRUE
         IN report[d].lunchTime + SumLunch(report, dates \ {d})

\* TimeCardOf paying the lunches too.
TimeCardOfPaidLunch(employee, rows, start, end) ==
    LET dailyReport == DailyReport(rows)
        totalWorkingTime == TotalFrom(dailyReport, DOMAIN dailyReport, 0)
        paid == totalWorkingTime + SumLunch(dailyReport, DOMAIN dailyReport)
    IN [ok |-> TRUE,
        employee |-> employee,
        dailyReport |-> dailyReport,
        totalWorkingTime |-> totalWorkingTime,
        totalPay |-> ToFixed(ToFixedCents(TotalPay(paid, employee.payRate))),
        startDate |-> DateOf(start),
        endDate |-> DateOf(end)]

\* What getEmployeeTimeCard returns for the rows in the order the select
\* gave them.
TimeCardOf(employee, rows, start, end) ==
    LET dailyReport == DailyReport(rows)
        totalWorkingTime == TotalFrom(dailyReport, DOMAIN dailyReport, 0)
    IN [ok |-> TRUE,
        employee |-> employee,
        dailyReport |-> dailyReport,
        totalWorkingTime |-> totalWorkingTime,
        totalPay |-> ToFixed(ToFixedCents(TotalPay(totalWorkingTime, employee.payRate))),
        startDate |-> DateOf(start),
        endDate |-> DateOf(end)]

\* TimeCard going on without the employee record, the pay rate taken as 0.
TimeCardTolerant(id, start, end) ==
    /\ \E f \in Orderings(clockLogs, Selected(clockLogs, id, start, end)) :
            card' = TimeCardOf(IF id \in DOMAIN employees THEN employees[id]
                               ELSE [status |-> NULL, payRate |-> 0],
                               [k \in DOMAIN f |-> clockLogs[f[k]]], start, end)
    /\ UNCHANGED <<employees, clockLogs, now, pc, emp, stat, last, upd, result,
                   since, mono, export, removed, shelf>>

\* GET /api/clock/timecard/:employeeId with both dates given.
TimeCard(id, start, end) ==
    /\ IF id \notin DOMAIN employees
       THEN card' = [ok |-> FALSE, message |-> "Employee not found"]
       ELSE \E f \in Orderings(clockLogs, Selected(clockLogs, id, start, end)) :
                card' = TimeCardOf(employees[id],
                            [k \in DOMAIN f |-> clockLogs[f[k]]], start, end)
    /\ UNCHANGED <<employees, clockLogs, now, pc, emp, stat, last, upd, result,
                   since, mono, export, removed, shelf>>

\* ------------------------------------------------------- exportAllHours

\* What a step of the export leaves alone.
beside == <<employees, clockLogs, now, pc, emp, stat, last, upd, result, since, mono,
            card, removed, shelf>>

\* db.select().from(clockEmployees) has no ORDER BY: the rows in any order.
Enumerations(S) ==
    {f \in [1..Cardinality(S) -> S] : \A a, b \in 1..Cardinality(S) : a # b => f[a] # f[b]}

ExportFailed == [code |-> 500, message |-> "Failed to export hours"]

\* The for loop's test: on to the next employee, or the return and res.json.
ExportGoOn(x) ==
    IF x.next > Len(x.employees)
    THEN [x EXCEPT !.pc = "done",
                   !.result = [code |-> 200,
                               startDate |-> DateOf(x.startDate),
                               endDate |-> DateOf(x.endDate),
                               employees |-> x.exportData]]
    ELSE [x EXCEPT !.pc = "employee"]

\* GET /api/clock/export with both dates given: await getClockEmployees().
ExportList(start, end) ==
    /\ export.pc = "idle"
    /\ \E f \in Enumerations(DOMAIN employees) :
            export' = ExportGoOn([export EXCEPT
                !.startDate = start, !.endDate = end,
                !.employees = [k \in DOMAIN f |->
                                 [id |-> f[k], payRate |-> employees[f[k]].payRate]]])
    /\ UNCHANGED beside

\* ExportEmployee leaving out an employee whose timecard fails.
ExportEmployeeSkipping ==
    /\ export.pc = "employee"
    /\ LET id == export.employees[export.next].id
       IN IF id \in DOMAIN employees
          THEN export' = [export EXCEPT !.pc = "logs", !.cur = employees[id]]
          ELSE export' = ExportGoOn([export EXCEPT !.next = @ + 1])
    /\ UNCHANGED beside

\* ExportEmployee stamping the employee it reads as inactive.
ExportEmployeeResetting ==
    /\ export.pc = "employee"
    /\ LET id == export.employees[export.next].id
       IN IF id \in DOMAIN employees
          THEN /\ export' = [export EXCEPT !.pc = "logs", !.cur = employees[id]]
               /\ employees' = [employees EXCEPT ![id].status = "inactive"]
          ELSE /\ export' = [export EXCEPT !.pc = "done", !.result = ExportFailed]
               /\ UNCHANGED employees
    /\ UNCHANGED <<clockLogs, now, pc, emp, stat, last, upd, result, since, mono,
                   card, removed, shelf>>

\* getEmployeeTimeCard(employee.id, ...) to its first await: getClockEmployee
\* and the not-found throw, which exportAllHours lets through to the route's
\* catch.
ExportEmployee ==
    /\ export.pc = "employee"
    /\ LET id == export.employees[export.next].id
       IN IF id \in DOMAIN employees
          THEN export' = [export EXCEPT !.pc = "logs", !.cur = employees[id]]
          ELSE export' = [export EXCEPT !.pc = "done", !.result = ExportFailed]
    /\ UNCHANGED beside

\* The entry exportAllHours pushes for an employee of the list.
ExportEntry(listed, timeCard) ==
    [employeeId |-> listed.id,
     payRate |-> listed.payRate,
     totalHours |-> ToFixed(ToFixedCents(NumberDivide(timeCard.totalWorkingTime, HourMs))),
     totalPay |-> timeCard.totalPay,
     dailyBreakdown |-> timeCard.dailyReport]

\* ExportLogs reading the punches of the employee whatever the range.
ExportLogsAnyDate ==
    /\ export.pc = "logs"
    /\ LET listed == export.employees[export.next]
       IN \E f \in Orderings(clockLogs, RowsOf(clockLogs, listed.id)) :
            export' = ExportGoOn([export EXCEPT
                !.exportData = Append(@, ExportEntry(listed,
                    TimeCardOf(export.cur, [k \in DOMAIN f |-> clockLogs[f[k]]],
                               export.startDate, export.endDate))),
                !.next = @ + 1,
                !.cur = NoRow])
    /\ UNCHANGED beside

\* The rest of getEmployeeTimeCard, the select and the replay, and the push.
ExportLogs ==
    /\ export.pc = "logs"
    /\ LET listed == export.employees[export.next]
       IN \E f \in Orderings(clockLogs,
                    Selected(clockLogs, listed.id, export.startDate, export.endDate)) :
            export' = ExportGoOn([export EXCEPT
                !.exportData = Append(@, ExportEntry(listed,
                    TimeCardOf(export.cur, [k \in DOMAIN f |-> clockLogs[f[k]]],
                               export.startDate, export.endDate))),
                !.next = @ + 1,
                !.cur = NoRow])
    /\ UNCHANGED beside

\* ------------------------------------------------ checkout and check-in

\* What the requests on the stock leave alone.
clock == <<employees, clockLogs, now, pc, emp, stat, last, upd, result, since, mono,
           card, export, removed>>

\* The tables as one value, for the handlers that write several of them.
Ledger ==
    [items |-> items, orders |-> orders, orderItems |-> orderItems,
     orderActivities |-> orderActivities, itemTransactions |-> itemTransactions,
     uuids |-> uuids]

\* The tables become those of db.
Store(db) ==
    /\ items' = db.items
    /\ orders' = db.orders
    /\ orderItems' = db.orderItems
    /\ orderActivities' = db.orderActivities
    /\ itemTransactions' = db.itemTransactions
    /\ uuids' = db.uuids

\* The request is answered and the tables are as they were.
Answered(route, code, message, itemId, quantity, item) ==
    /\ answer' = [route |-> route, code |-> code, message |-> message,
                  itemId |-> itemId, quantity |-> quantity, item |-> item]
    /\ UNCHANGED <<items, orders, orderItems, orderActivities, itemTransactions, uuids>>

\* UPDATE items SET reserved_stock = reserved_stock + delta WHERE id = itemId.
Reserve(rows, itemId, delta) ==
    IF itemId \in DOMAIN rows
    THEN [rows EXCEPT ![itemId].reservedStock = @ + delta]
    ELSE rows

\* order_number is unique: createOrder throws on a number already there.
OrderNumberTaken(db, orderNumber) == \E o \in db.orders : o.orderNumber = orderNumber

\* createOrder: the new row gets the next id.
CreateOrder(db, orderNumber) ==
    [db EXCEPT !.orders = @ \cup {[id |-> db.uuids + 1, orderNumber |-> orderNumber]},
               !.uuids = @ + 1]

\* addOrderItem: the insert into order_items, then the update of the item.
AddOrderItem(db, orderId, itemId, quantity) ==
    [db EXCEPT !.orderItems = @ \cup {[id |-> db.uuids + 1, orderId |-> orderId,
                                       itemId |-> itemId, quantity |-> quantity]},
               !.uuids = @ + 1,
               !.items = Reserve(@, itemId, quantity)]

\* createOrderActivity with activityType item_added.
CreateOrderActivity(db, orderId, itemId, quantity) ==
    [db EXCEPT !.orderActivities = Append(@,
        [orderId |-> orderId, activityType |-> "item_added",
         itemId |-> itemId, quantity |-> quantity])]

\* createItemTransaction and the INSERT of checkInItem.
CreateItemTransaction(db, itemId, orderId, transactionType, quantity) ==
    [db EXCEPT !.itemTransactions = Append(@,
        [itemId |-> itemId, orderId |-> orderId,
         transactionType |-> transactionType, quantity |-> quantity])]

\* The loop of POST /api/checkout over validatedData.items from place i: it
\* returns at the first item that is unknown or short of stock, after the
\* writes made for the items before it.
RECURSIVE CheckoutItems(_, _, _, _)
CheckoutItems(db, orderId, list, i) ==
    IF i > Len(list) THEN [db |-> db, code |-> 201, message |-> ""]
    ELSE LET checkoutItem == list[i] IN
        IF checkoutItem.itemId \notin DOMAIN db.items
        THEN [db |-> db, code |-> 400, message |-> "Item unavailable"]
        ELSE LET item == db.items[checkoutItem.itemId]
                 availableStock == item.currentStock - item.reservedStock
             IN IF availableStock < checkoutItem.quantity
                THEN [db |-> db, code |-> 400, message |-> "Insufficient stock"]
                ELSE CheckoutItems(
                        CreateItemTransaction(
                            CreateOrderActivity(
                                AddOrderItem(db, orderId, checkoutItem.itemId,
                                             checkoutItem.quantity),
                                orderId, checkoutItem.itemId, checkoutItem.quantity),
                            checkoutItem.itemId, orderId, "check-out",
                            checkoutItem.quantity),
                        orderId, list, i + 1)

\* POST /api/checkout. The order number is made of the year and the last six
\* digits of Date.now().
Checkout(body) ==
    /\ UNCHANGED clock
    /\ LET orderNumber == <<"ORD", now>>
           order == IF body.orderId # NoOrder THEN body.orderId ELSE uuids + 1
           made == IF body.orderId # NoOrder THEN Ledger
                   ELSE CreateOrder(Ledger, orderNumber)
           done == CheckoutItems(made, order, body.items, 1)
       IN IF body.items = << >> \/ \E i \in 1..Len(body.items) : body.items[i].quantity < 1
          THEN Answered("checkout", 400, "Invalid checkout data", NoItem, 0, NoItemRow)
          ELSE IF body.orderId # NoOrder /\ ~ \E o \in orders : o.id = body.orderId
          THEN Answered("checkout", 400, "Unable to find order", NoItem, 0, NoItemRow)
          ELSE IF body.orderId = NoOrder /\ OrderNumberTaken(Ledger, orderNumber)
          THEN Answered("checkout", 500, "Failed to process checkout", NoItem, 0,
                        NoItemRow)
          ELSE /\ Store(done.db)
               /\ answer' = [route |-> "checkout", code |-> done.code,
                             message |-> done.message, itemId |-> NoItem,
                             quantity |-> 0, item |-> NoItemRow]

\* POST /api/items/:id/checkout.
QuickCheckout(id, quantity, orderId) ==
    /\ UNCHANGED clock
    /\ LET orderNumber == <<"CHK", now>>
           item == items[id]
           order == IF orderId # NoOrder THEN orderId ELSE uuids + 1
           made == IF orderId # NoOrder THEN Ledger ELSE CreateOrder(Ledger, orderNumber)
           availableStock == item.currentStock - item.reservedStock
           added == CreateItemTransaction(
                        CreateOrderActivity(AddOrderItem(made, order, id, quantity),
                                            order, id, quantity),
                        id, order, "check-out", quantity)
           updatedItem == added.items[id]
           done == IF updatedItem.currentStock - updatedItem.reservedStock = 0
                   THEN [added EXCEPT !.items[id].status = "checked-out"]
                   ELSE added
       IN IF quantity < 1
          THEN Answered("quick checkout", 400, "Invalid checkout data", id, quantity,
                        NoItemRow)
          ELSE IF id \notin DOMAIN items
          THEN Answered("quick checkout", 400, "Unable to find item", id, quantity,
                        NoItemRow)
          ELSE IF orderId # NoOrder /\ ~ \E o \in orders : o.id = orderId
          THEN Answered("quick checkout", 400, "Unable to find order", id, quantity, item)
          ELSE IF orderId = NoOrder /\ OrderNumberTaken(Ledger, orderNumber)
          THEN Answered("quick checkout", 500, "Failed to process checkout", id,
                        quantity, item)
          ELSE IF availableStock < quantity
          THEN /\ Store(made)
               /\ answer' = [route |-> "quick checkout", code |-> 400,
                             message |-> "Insufficient stock", itemId |-> id,
                             quantity |-> quantity, item |-> item]
          ELSE /\ Store(done)
               /\ answer' = [route |-> "quick checkout", code |-> 201, message |-> "",
                             itemId |-> id, quantity |-> quantity, item |-> item]

\* checkInItem: the UPDATE of the item and the INSERT of the transaction.
CheckInItem(db, itemId, quantity) ==
    CreateItemTransaction(
        [db EXCEPT !.items =
            IF itemId \in DOMAIN @
            THEN [@ EXCEPT ![itemId] =
                    [currentStock |-> @.currentStock + quantity,
                     reservedStock |-> @.reservedStock - quantity,
                     status |-> IF @.currentStock + quantity > 0 THEN "available"
                                ELSE @.status]]
            ELSE @],
        itemId, NoOrder, "check-in", quantity)

\* POST /api/items/:id/checkin.
CheckIn(id, quantity) ==
    /\ UNCHANGED clock
    /\ IF quantity < 1
       THEN Answered("checkin", 400, "Invalid check-in data", id, quantity, NoItemRow)
       ELSE IF id \notin DOMAIN items
       THEN Answered("checkin", 400, "Unable to find item", id, quantity, NoItemRow)
       ELSE IF items[id].reservedStock < quantity
       THEN Answered("checkin", 400, "Cannot check in", id, quantity, items[id])
       ELSE /\ Store(CheckInItem(Ledger, id, quantity))
            /\ answer' = [route |-> "checkin", code |-> 200, message |-> "",
                          itemId |-> id, quantity |-> quantity, item |-> items[id]]

\* removeOrderItem(id): false when there is no such row.
RemoveOrderItem(id) ==
    /\ UNCHANGED <<clock, orders, orderActivities, itemTransactions, uuids>>
    /\ IF \E r \in orderItems : r.id = id
       THEN LET orderItem == CHOOSE r \in orderItems : r.id = id
            IN /\ items' = Reserve(items, orderItem.itemId, 0 - orderItem.quantity)
               /\ orderItems' = orderItems \ {orderItem}
               /\ answer' = [NoAnswer EXCEPT !.route = "removeOrderItem", !.code = 1]
       ELSE /\ answer' = [NoAnswer EXCEPT !.route = "removeOrderItem"]
            /\ UNCHANGED <<items, orderItems>>

\* The loop of deleteOrder over orderItemsToDelete.
RECURSIVE Release(_, _)
Release(rows, orderItemsToDelete) ==
    IF orderItemsToDelete = {} THEN rows
    ELSE LET orderItem == CHOOSE r \in orderItemsToDelete : TRUE
         IN Release(Reserve(rows, orderItem.itemId, 0 - orderItem.quantity),
                    orderItemsToDelete \ {orderItem})

\* deleteOrder(id): false when there is no such order.
DeleteOrder(id) ==
    /\ UNCHANGED <<clock, uuids>>
    /\ IF \E o \in orders : o.id = id
       THEN /\ itemTransactions' = SelectSeq(itemTransactions, LAMBDA t : t.orderId # id)
            /\ orderActivities' = SelectSeq(orderActivities, LAMBDA a : a.orderId # id)
            /\ items' = Release(items, {r \in orderItems : r.orderId = id})
            /\ orderItems' = {r \in orderItems : r.orderId # id}
            /\ orders' = {o \in orders : o.id # id}
            /\ answer' = [NoAnswer EXCEPT !.route = "deleteOrder", !.code = 1]
       ELSE /\ answer' = [NoAnswer EXCEPT !.route = "deleteOrder"]
            /\ UNCHANGED <<items, orders, orderItems, orderActivities, itemTransactions>>

\* ------------------------------------------------------------ specification

\* Nothing in stock and no order.
EmptyShelf ==
    /\ items = << >>
    /\ orders = {}
    /\ orderItems = {}
    /\ orderActivities = << >>
    /\ itemTransactions = << >>
    /\ uuids = 0
    /\ answer = NoAnswer

InitRequests ==
    /\ EmptyShelf
    /\ pc = [p \in Procs |-> "idle"]
    /\ emp = [p \in Procs |-> NoId]
    /\ stat = [p \in Procs |-> NoStatus]
    /\ last = [p \in Procs |-> NoType]
    /\ upd = [p \in Procs |-> NoRow]
    /\ result = [p \in Procs |-> NoResult]
    /\ since = [e \in EmpIds |-> 0]
    /\ mono = [e \in EmpIds |-> TRUE]
    /\ card = NoCard
    /\ export = NoExport
    /\ removed = NoResult

\* One employee, created with the default status, no punch yet.
Init ==
    /\ employees = [e \in {"e1"} |-> [status |-> "inactive", payRate |-> 2500]]
    /\ clockLogs = << >>
    /\ now = 1
    /\ InitRequests

\* Fewer than n punches are recorded or on their way.
Room(n) == Len(clockLogs) + Cardinality(InFlight) < n

\* Requests of POST /api/clock/action for one employee, interleaved at every
\* await, beside the requests of /api/clock/employees.
Next ==
    \/ \E p \in Procs, id \in HotIds \cup {NoId} : Room(MaxLogs) /\ ClockRead(p, id)
    \/ \E p \in Procs : ClockLookup(p)
    \/ \E p \in Procs : ClockUpdate(p)
    \/ \E p \in Procs : ClockInsert(p)
    \/ \E p \in Procs : Crash(p)
    \/ \E p \in Procs : Finish(p)
    \/ Tick(MaxTime)
    \/ \E id \in HotIds, s \in InsertStatuses, r \in PayRates : CreateEmployee(id, s, r)
    \/ \E id \in HotIds, u \in PatchBodies : PatchEmployee(id, u)
    \/ \E id \in HotIds : DeleteEmployee(id)

Spec == Init /\ [][Next]_vars

\* No request is under way.
Quiet == \A p \in Procs : pc[p] = "idle"

\* The same requests one at a time, for two employees.
NextSerial ==
    \/ \E id \in EmpIds \cup {NoId} : Quiet /\ Room(MaxLogs) /\ ClockRead(1, id)
    \/ ClockLookup(1)
    \/ ClockUpdate(1)
    \/ ClockInsert(1)
    \/ Finish(1)
    \/ Quiet /\ Tick(MaxTime)
    \/ \E id \in EmpIds, s \in InsertStatuses, r \in PayRates :
            Quiet /\ CreateEmployee(id, s, r)
    \/ \E id \in EmpIds, u \in PatchBodies : Quiet /\ PatchEmployee(id, u)
    \/ \E id \in EmpIds : Quiet /\ DeleteEmployee(id)

SpecSerial == Init /\ [][NextSerial]_vars

\* Two employees, created with the default status, no punch yet.
InitCycle ==
    /\ employees = [e \in EmpIds |-> [status |-> "inactive", payRate |-> 2500]]
    /\ clockLogs = << >>
    /\ now = 1
    /\ InitRequests

\* Calls of clockAction one after the other and no other writer.
NextCycle ==
    \/ \E id \in EmpIds : Quiet /\ Room(MaxCycleLogs) /\ ClockRead(1, id)
    \/ ClockLookup(1)
    \/ ClockUpdate(1)
    \/ ClockInsertTracked(1)
    \/ Finish(1)
    \/ Quiet /\ Tick(MaxCycleTime)

SpecCycle == InitCycle /\ [][NextCycle]_vars

\* Two requests for one employee interleaved at every await, no other writer.
NextRace ==
    \/ \E p \in Procs, id \in HotIds : Room(MaxLogs) /\ ClockRead(p, id)
    \/ \E p \in Procs : ClockLookup(p)
    \/ \E p \in Procs : ClockUpdate(p)
    \/ \E p \in Procs : ClockInsert(p)
    \/ \E p \in Procs : Finish(p)
    \/ Tick(MaxTime)

SpecRace == Init /\ [][NextRace]_vars

\* The punches SpecCard draws from: for e1 every type at 09:00, 12:00, 13:00
\* and 17:00 of one day and a clock-in and a clock-out on the next, for e2 a
\* clock-in.
CardHours == <<9, 12, 13, 17>>
CardTypes == <<"clock-in", "lunch-out", "lunch-in", "clock-out">>
CardPunches ==
    [u \in 1..(Len(CardHours) * Len(CardTypes)) |->
        [employeeId |-> "e1",
         type |-> CardTypes[((u - 1) % Len(CardTypes)) + 1],
         timestamp |-> CardHours[((u - 1) \div Len(CardTypes)) + 1] * HourMs]]
    \o << [employeeId |-> "e1", type |-> "clock-in", timestamp |-> 33 * HourMs],
          [employeeId |-> "e1", type |-> "clock-out", timestamp |-> 41 * HourMs],
          [employeeId |-> "e2", type |-> "clock-in", timestamp |-> 9 * HourMs] >>

\* The lists of at most n places of CardPunches, each list ascending (the
\* order of insertion does not reach the timecard: the select sorts).
RECURSIVE PunchLists(_)
PunchLists(n) ==
    IF n = 0 THEN {<< >>}
    ELSE PunchLists(n - 1) \cup
         UNION {{Append(s, u) : u \in (IF s = << >> THEN 1 ELSE s[Len(s)])..Len(CardPunches)} :
                    s \in {t \in PunchLists(n - 1) : Len(t) = n - 1}}

\* The date ranges asked for: both days, the first day to its last
\* millisecond, 12:00 to 17:00, and an empty one.
CardRanges ==
    {<<0, 2 * DayMs>>, <<0, DayMs - 1>>, <<12 * HourMs, 17 * HourMs>>,
     <<13 * HourMs, 12 * HourMs>>}

\* Both employees present, any punches in clock_logs.
InitCard ==
    /\ employees = [e \in EmpIds |-> [status |-> "inactive", payRate |-> 2500]]
    /\ \E s \in PunchLists(MaxPunches) :
            clockLogs = [i \in 1..Len(s) |-> CardPunches[s[i]]]
    /\ now = 1
    /\ InitRequests

\* One request of the timecard on the punches drawn.
NextCard ==
    \E id \in EmpIds \cup {"e3"}, r \in CardRanges :
        card = NoCard /\ TimeCard(id, r[1], r[2])

SpecCard == InitCard /\ [][NextCard]_vars

\* The date ranges of SpecCards: the first day to 12:00, to its last
\* millisecond, and both days.
ReadRanges == {<<0, 12 * HourMs>>, <<0, DayMs - 1>>, <<0, 2 * DayMs>>}

\* Both employees present, up to MaxReadPunches punches in clock_logs.
InitCards ==
    /\ employees = [e \in EmpIds |-> [status |-> "inactive", payRate |-> 2500]]
    /\ \E s \in PunchLists(MaxReadPunches) :
            clockLogs = [i \in 1..Len(s) |-> CardPunches[s[i]]]
    /\ now = 1
    /\ InitRequests

\* Requests of the timecard one after the other on the same punches.
NextCards == \E id \in EmpIds, r \in ReadRanges : TimeCard(id, r[1], r[2])

SpecCards == InitCards /\ [][NextCards]_vars

\* e1 alone or both employees, up to MaxReadPunches punches of theirs.
InitExport ==
    /\ \E S \in {{"e1"}, EmpIds} :
            employees = [e \in S |-> [status |-> "inactive", payRate |-> 2500]]
    /\ \E s \in PunchLists(MaxReadPunches) :
            /\ clockLogs = [i \in 1..Len(s) |-> CardPunches[s[i]]]
            /\ \A i \in 1..Len(s) : CardPunches[s[i]].employeeId \in DOMAIN employees
    /\ now = 1
    /\ InitRequests

\* One export, nothing written meanwhile.
NextExport ==
    \/ \E r \in ReadRanges : ExportList(r[1], r[2])
    \/ ExportEmployee
    \/ ExportLogs

SpecExport == InitExport /\ [][NextExport]_vars

\* One export and the timecards of e1, beside calls of clockAction for e1 and
\* deletes of employees that come between their awaits.
NextReads ==
    \/ \E id \in HotIds : Room(MaxLogs) /\ ClockRead(1, id)
    \/ ClockLookup(1)
    \/ ClockUpdate(1)
    \/ ClockInsert(1)
    \/ Finish(1)
    \/ \E id \in EmpIds : DeleteEmployee(id)
    \/ ExportList(0, DayMs)
    \/ ExportEmployee
    \/ ExportLogs
    \/ \E id \in HotIds : TimeCard(id, 0, DayMs)

SpecReads == InitCycle /\ [][NextReads]_vars

\* Calls of clockAction one at a time, beside requests to create and to
\* delete employees.
NextRemove ==
    \/ \E id \in EmpIds : Quiet /\ Room(MaxLogs) /\ ClockRead(1, id)
    \/ ClockLookup(1)
    \/ ClockUpdate(1)
    \/ ClockInsert(1)
    \/ Finish(1)
    \/ Quiet /\ Tick(MaxTime)
    \/ \E id \in EmpIds, s \in InsertStatuses, r \in PayRates :
            Quiet /\ CreateEmployee(id, s, r)
    \/ \E id \in EmpIds : Quiet /\ DeleteRequest(id)

SpecRemove == Init /\ [][NextRemove]_vars

\* Calls of clockAction for e1 one at a time, any of which may stop between
\* its two writes, and no other writer. A call under way goes on or stops:
\* the event loop does not leave a continuation waiting for ever.
NextCrash ==
    \/ \E id \in HotIds : Quiet /\ Room(MaxLogs) /\ ClockRead(1, id)
    \/ ClockLookup(1)
    \/ ClockUpdate(1)
    \/ ClockInsert(1)
    \/ Crash(1)
    \/ Finish(1)
    \/ Quiet /\ Tick(MaxTime)

SpecCrash == Init /\ [][NextCrash]_vars /\ WF_vars(NextCrash)

\* The ranges of SpecRange, no two with the same pair of dates: 12:00 to
\* 17:00 of the first day, both days, 13:00 to 09:00 of the next day, and the
\* second day to the millisecond before 17:00.
DayRanges ==
    {<<12 * HourMs, 17 * HourMs>>, <<0, 2 * DayMs>>, <<13 * HourMs, 33 * HourMs>>,
     <<DayMs, 41 * HourMs - 1>>}

\* One request of the timecard of e1 on the punches drawn.
NextRange == \E r \in DayRanges : card = NoCard /\ TimeCard("e1", r[1], r[2])

SpecRange == InitCards /\ [][NextRange]_vars

\* One day of e1, a clock-in at 01:00 and a clock-out up to MaxWorkedMs
\* milliseconds or 8 hours later.
InitPay ==
    /\ employees = [e \in {"e1"} |-> [status |-> "inactive", payRate |-> 2500]]
    /\ \E ms \in (0..MaxWorkedMs) \cup {8 * HourMs} :
            clockLogs = << [employeeId |-> "e1", type |-> "clock-in",
                            timestamp |-> HourMs],
                           [employeeId |-> "e1", type |-> "clock-out",
                            timestamp |-> HourMs + ms] >>
    /\ now = 1
    /\ InitRequests

\* The timecard of that day.
NextPay == card = NoCard /\ TimeCard("e1", 0, DayMs - 1)

SpecPay == InitPay /\ [][NextPay]_vars

\* Date.now() advances.
Advance(max) ==
    /\ \E t \in (now + 1)..max : now' = t
    /\ UNCHANGED <<employees, clockLogs, pc, emp, stat, last, upd, result, aside>>

\* Requests of POST /api/clock/action for one employee that began inactive
\* with no punches, interleaved at every await, on a clock that never goes
\* back, and one request of the employee's timecard of the day.
NextOverlap ==
    \/ \E p \in Procs, id \in HotIds : Room(MaxOverlapLogs) /\ ClockRead(p, id)
    \/ \E p \in Procs : ClockLookup(p)
    \/ \E p \in Procs : ClockUpdate(p)
    \/ \E p \in Procs : ClockInsert(p)
    \/ \E p \in Procs : Finish(p)
    \/ Advance(MaxOverlapTime)
    \/ \E id \in HotIds : card = NoCard /\ TimeCard(id, 0, DayMs - 1)

SpecOverlap == Init /\ [][NextOverlap]_vars

\* The bodies of POST /api/checkout: up to MaxLines items, known or not,
\* quantities from 0 (which the schema refuses), with no orderId, the id of
\* an order, or an id of no order.
RECURSIVE CheckoutLists(_)
CheckoutLists(n) ==
    IF n = 0 THEN {<< >>}
    ELSE CheckoutLists(n - 1) \cup
         {Append(l, c) : l \in {k \in CheckoutLists(n - 1) : Len(k) = n - 1},
                         c \in [itemId : ItemIds \cup {NoItem}, quantity : 0..MaxQuantity]}

OrderRefs == {NoOrder, MaxUuids + 1} \cup {o.id : o \in orders}

CheckoutBodies == [orderId : OrderRefs, items : CheckoutLists(MaxLines)]

\* Two items in stock, nothing reserved, no order.
InitShelf ==
    /\ employees = [e \in {"e1"} |-> [status |-> "inactive", payRate |-> 2500]]
    /\ clockLogs = << >>
    /\ now = 1
    /\ pc = [p \in Procs |-> "idle"]
    /\ emp = [p \in Procs |-> NoId]
    /\ stat = [p \in Procs |-> NoStatus]
    /\ last = [p \in Procs |-> NoType]
    /\ upd = [p \in Procs |-> NoRow]
    /\ result = [p \in Procs |-> NoResult]
    /\ since = [e \in EmpIds |-> 0]
    /\ mono = [e \in EmpIds |-> TRUE]
    /\ card = NoCard
    /\ export = NoExport
    /\ removed = NoResult
    /\ \E stock \in [ItemIds -> 1..MaxStock] :
            items = [i \in ItemIds |-> [currentStock |-> stock[i], reservedStock |-> 0,
                                        status |-> "available"]]
    /\ orders = {}
    /\ orderItems = {}
    /\ orderActivities = << >>
    /\ itemTransactions = << >>
    /\ uuids = 0
    /\ answer = NoAnswer

\* Requests on the stock, one at a time.
NextShelf ==
    \/ \E body \in CheckoutBodies :
            uuids + 1 + Len(body.items) <= MaxUuids /\ Checkout(body)
    \/ \E id \in ItemIds \cup {NoItem}, q \in 0..MaxQuantity, o \in OrderRefs :
            uuids + 2 <= MaxUuids /\ QuickCheckout(id, q, o)
    \/ \E id \in ItemIds \cup {NoItem}, q \in 0..MaxQuantity : CheckIn(id, q)
    \/ \E id \in 1..MaxUuids : RemoveOrderItem(id)
    \/ \E id \in 1..MaxUuids : DeleteOrder(id)
    \/ Advance(MaxShelfTime)

SpecShelf == InitShelf /\ [][NextShelf]_vars

\* ------------------------------------------------------------------ claims

\* The punches of employee e, in insertion order.
PunchesOf(e) == SelectSeq(clockLogs, LAMBDA r : r.employeeId = e)
TypesOf(seq) == [i \in 1..Len(seq) |-> seq[i].type]
LastK(seq, k) == SubSeq(seq, Len(seq) - k + 1, Len(seq))
IsPrefix(s, t) == Len(s) <= Len(t) /\ SubSeq(t, 1, Len(s)) = s

CycleTypes == <<"clock-in", "lunch-out", "lunch-in", "clock-out">>
CycleStatuses == <<"working", "on-lunch", "working", "inactive">>

\* The k calls completed since a call found e inactive went round the cycle.
OnCycle(e) ==
    LET k == since[e] IN
        /\ k <= 4
        /\ k <= Len(PunchesOf(e))
        /\ TypesOf(LastK(PunchesOf(e), k)) = SubSeq(CycleTypes, 1, k)
        /\ e \in DOMAIN employees
        /\ employees[e].status = CycleStatuses[k]

\* C1 as claimed: from an inactive employee, successive non-interleaved
\* calls of clockAction with no other writer give the statuses working,
\* on-lunch, working, inactive and the punches clock-in, lunch-out, lunch-in,
\* clock-out, whatever timestamps the punches get.
C1_CycleAnyClock ==
    \A e \in EmpIds : (since[e] > 0 /\ pc[1] \in {"idle", "done"}) => OnCycle(e)

\* C1 amended: the same, provided each of the calls stamps its punch with a
\* time strictly later than every earlier punch of the employee.
C1_CycleIncreasingClock ==
    \A e \in EmpIds :
        (since[e] > 0 /\ mono[e] /\ pc[1] \in {"idle", "done"}) => OnCycle(e)

\* C1 witness: a fourth call in a row has brought e1 back to inactive.
C1_Witness ==
    /\ since["e1"] = 4 /\ mono["e1"] /\ pc[1] = "done"
    /\ result[1].code = 200 /\ result[1].log.type = "clock-out"
    /\ employees["e1"].status = "inactive"

\* The types of the employee's punches with the greatest timestamp.
MostRecentTypes(e) ==
    {clockLogs[i].type : i \in {j \in RowsOf(clockLogs, e) :
        \A k \in RowsOf(clockLogs, e) : clockLogs[k].timestamp <= clockLogs[j].timestamp}}

\* The transition table of the claim.
TableRow(status, recent) ==
    IF status = "inactive" THEN <<"working", "clock-in", "Clocked In">>
    ELSE IF status = "on-lunch" THEN <<"working", "lunch-in", "Ended Lunch">>
    ELSE IF recent = "lunch-in" THEN <<"inactive", "clock-out", "Clocked Out">>
    ELSE <<"on-lunch", "lunch-out", "Started Lunch">>

\* C2: for an existing employee clockAction reads the employee's status and,
\* when it is working, a most recent punch of the employee; the employee,
\* label and punch it returns are the transition table's for what it read.
C2_TransitionTable ==
    /\ [][\A p \in Procs :
            (pc[p] = "idle" /\ pc'[p] # "idle" /\ emp'[p] \in DOMAIN employees)
                => stat'[p] = employees[emp'[p]].status]_vars
    /\ [][\A p \in Procs :
            (pc[p] = "lookup" /\ pc'[p] = "update")
                => IF RowsOf(clockLogs, emp[p]) = {} THEN last'[p] = NoType
                   ELSE last'[p] \in MostRecentTypes(emp[p])]_vars
    /\ [](\A p \in Procs :
            (pc[p] = "done" /\ result[p].code = 200)
                => /\ stat[p] \in {"inactive", "working", "on-lunch"}
                   /\ result[p].employee.status = TableRow(stat[p], last[p])[1]
                   /\ result[p].log.type = TableRow(stat[p], last[p])[2]
                   /\ result[p].status = TableRow(stat[p], last[p])[3]
                   /\ result[p].log.employeeId = emp[p])

\* C2 witness: a call found the employee working with lunch-in as the most
\* recent punch and answered Clocked Out.
C2_Witness ==
    \E p \in Procs :
        /\ pc[p] = "done" /\ result[p].code = 200
        /\ stat[p] = "working" /\ last[p] = "lunch-in"
        /\ result[p].status = "Clocked Out"

\* C3: clockAction for an id that is not in clock_employees answers
\* "Employee not found", appends no punch and changes no employee.
C3_NotFound ==
    /\ [][\A p \in Procs :
            (pc[p] = "idle" /\ pc'[p] # "idle" /\ emp'[p] # NoId
                /\ emp'[p] \notin DOMAIN employees)
                => /\ pc'[p] = "done"
                   /\ result'[p] = [code |-> 400, message |-> "Employee not found"]
                   /\ clockLogs' = clockLogs
                   /\ employees' = employees]_vars
    /\ [](\A p \in Procs :
            (pc[p] = "done" /\ result[p] = [code |-> 400, message |-> "Employee not found"])
                => upd[p] = NoRow)

\* C3 witness: a call for a missing employee has failed.
C3_Witness ==
    \E p \in Procs :
        /\ pc[p] = "done" /\ emp[p] \notin DOMAIN employees
        /\ result[p] = [code |-> 400, message |-> "Employee not found"]

\* C4: clockAction for an employee whose status is none of inactive, working,
\* on-lunch answers "Invalid employee status" and writes neither the status
\* nor a punch.
C4_InvalidState ==
    /\ [][\A p \in Procs :
            (pc[p] = "idle" /\ pc'[p] # "idle" /\ emp'[p] \in DOMAIN employees
                /\ employees[emp'[p]].status \notin {"inactive", "working", "on-lunch"})
                => /\ pc'[p] = "done"
                   /\ result'[p] = [code |-> 400, message |-> "Invalid employee status"]
                   /\ clockLogs' = clockLogs
                   /\ employees' = employees]_vars
    /\ [](\A p \in Procs :
            (pc[p] = "done" /\ result[p] = [code |-> 400, message |-> "Invalid employee status"])
                => upd[p] = NoRow)

\* C4 witness: a call for an employee with a NULL status has failed.
C4_Witness ==
    \E p \in Procs :
        /\ pc[p] = "done" /\ emp[p] \in DOMAIN employees
        /\ employees[emp[p]].status = NULL /\ stat[p] = NULL
        /\ result[p] = [code |-> 400, message |-> "Invalid employee status"]

\* The rows of clock_employees other than id are as they were.
OthersKept(id) ==
    /\ DOMAIN employees' \ {id} = DOMAIN employees \ {id}
    /\ \A e \in DOMAIN employees \ {id} : employees'[e] = employees[e]

\* C5: the punch log only grows, by one punch per successful clockAction and
\* with the caller's employee id; no step changes or removes a punch, a step of
\* clockAction leaves the other employees alone, and a request of
\* /api/clock/employees touches one employee and no punch.
C5_AppendOnly ==
    [][/\ IsPrefix(clockLogs, clockLogs')
       /\ Len(clockLogs') <= Len(clockLogs) + 1
       /\ \A p \in Procs :
            (pc[p] # "done" /\ pc'[p] = "done" /\ result'[p].code = 200)
                <=> (/\ pc[p] = "insert" /\ pc'[p] # "insert"
                     /\ Len(clockLogs') = Len(clockLogs) + 1
                     /\ clockLogs'[Len(clockLogs')].employeeId = emp[p]
                     /\ clockLogs'[Len(clockLogs')] = result'[p].log)
       /\ (Len(clockLogs') > Len(clockLogs)) => pc' # pc
       /\ \A p \in Procs : pc'[p] # pc[p] => OthersKept(emp'[p]) \/ OthersKept(emp[p])
       /\ pc' = pc => \E id \in EmpIds : OthersKept(id)
      ]_vars

\* C5 witness: a call has just added a punch for e2 behind a punch of e1.
C5_Witness ==
    /\ pc[1] = "done" /\ result[1].code = 200 /\ emp[1] = "e2"
    /\ Len(clockLogs) = 2
    /\ clockLogs[1].employeeId = "e1" /\ clockLogs[2].employeeId = "e2"

\* C6 as claimed: an employee is created inactive and every change of an
\* employee's status is the status update of a clockAction for that employee.
C6_StatusOnlyByClockAction ==
    [][\A e \in EmpIds :
        /\ (e \notin DOMAIN employees /\ e \in DOMAIN employees')
                => employees'[e].status = "inactive"
        /\ (e \in DOMAIN employees /\ e \in DOMAIN employees'
                /\ employees'[e].status # employees[e].status)
                => \E p \in Procs : pc[p] = "update" /\ pc'[p] = "insert" /\ emp[p] = e
      ]_vars

\* C7: two calls for one employee that overlap decide from the same read:
\* both write the successor of the status they read and append the same type
\* of punch, so the status is one step on and the log two punches longer.
C7_StaleDecision ==
    \A p \in Procs : \A q \in Procs \ {p} :
        (/\ pc[p] = "done" /\ pc[q] = "done"
         /\ result[p].code = 200 /\ result[q].code = 200
         /\ emp[p] = emp[q] /\ stat[p] = stat[q] /\ last[p] = last[q])
            => /\ result[p].log.type = result[q].log.type
               /\ result[p].employee.status = result[q].employee.status
               /\ employees[emp[p]].status = result[p].employee.status

\* C7 witness: the log ends with two clock-in punches of e1 and e1 is working.
C7_Witness ==
    /\ pc[1] = "done" /\ pc[2] = "done"
    /\ stat[1] = "inactive" /\ stat[2] = "inactive"
    /\ Len(clockLogs) = 2
    /\ clockLogs[1].employeeId = "e1" /\ clockLogs[2].employeeId = "e1"
    /\ clockLogs[1].type = "clock-in" /\ clockLogs[2].type = "clock-in"
    /\ employees["e1"].status = "working"

\* C8: the status update of clockAction is a write of its own: it moves the
\* status on and adds no punch, and a call that stops after it leaves both
\* tables as they are.
C8_TwoWrites ==
    /\ [][\A p \in Procs :
            (pc[p] = "update" /\ pc'[p] = "insert")
                => /\ employees'[emp[p]].status # stat[p]
                   /\ employees'[emp[p]].status = upd'[p].status
                   /\ clockLogs' = clockLogs]_vars
    /\ [][\A p \in Procs :
            (pc[p] = "insert" /\ pc'[p] = "stopped")
                => employees' = employees /\ clockLogs' = clockLogs]_vars

\* C8 witness: a call has stopped between its writes; the employee is
\* working and has no punch.
C8_Witness ==
    \E p \in Procs :
        /\ pc[p] = "stopped" /\ stat[p] = "inactive"
        /\ emp[p] \in DOMAIN employees
        /\ employees[emp[p]].status = "working"
        /\ clockLogs = << >>

\* The sum of workingTime over the entries of a dailyReport.
RECURSIVE SumWorking(_, _)
SumWorking(report, dates) ==
    IF dates = {} THEN 0
    ELSE LET d == CHOOSE x \in dates : TRUE
         IN report[d].workingTime + SumWorking(report, dates \ {d})

\* C9: the totalWorkingTime of a timecard is the sum of workingTime over the
\* entries of its dailyReport.
C9_TotalIsSumOfDays ==
    card.ok => card.totalWorkingTime = SumWorking(card.dailyReport, DOMAIN card.dailyReport)

\* C9 witness: a timecard over two days, time worked on both.
C9_Witness ==
    /\ card.ok
    /\ \E d1, d2 \in DOMAIN card.dailyReport :
            /\ d1 # d2
            /\ card.dailyReport[d1].workingTime > 0
            /\ card.dailyReport[d2].workingTime > 0

\* The places in a day's logs of the punches of one type.
OfType(logs, type) == {i \in 1..Len(logs) : logs[i].type = type}
TimeOf(logs, type) == logs[CHOOSE i \in OfType(logs, type) : TRUE].timestamp

\* The day's punches are one clock-in, one lunch-out, one lunch-in and one
\* clock-out.
FourPunchDay(logs) ==
    /\ Len(logs) = 4
    /\ \A t \in {"clock-in", "lunch-out", "lunch-in", "clock-out"} :
            Cardinality(OfType(logs, t)) = 1

\* The day's times are (b - a) + (d - c) worked and (c - b) of lunch.
FourPunchTimes(day) ==
    LET a == TimeOf(day.logs, "clock-in")
        b == TimeOf(day.logs, "lunch-out")
        c == TimeOf(day.logs, "lunch-in")
        d == TimeOf(day.logs, "clock-out")
    IN day.workingTime = (b - a) + (d - c) /\ day.lunchTime = c - b

\* The day's punches are clock-in@09:00, lunch-out@12:00, lunch-in@13:00 and
\* clock-out@17:00.
ExampleDay(logs) ==
    /\ Len(logs) = 4
    /\ TypesOf(logs) = CycleTypes
    /\ logs[1].timestamp = 9 * HourMs /\ logs[2].timestamp = 12 * HourMs
    /\ logs[3].timestamp = 13 * HourMs /\ logs[4].timestamp = 17 * HourMs

\* C10 as claimed: a day of clock-in@a, lunch-out@b, lunch-in@c, clock-out@d
\* with a <= b <= c <= d has (b - a) + (d - c) worked and (c - b) of lunch;
\* 09:00, 12:00, 13:00, 17:00 gives 8 h worked and 1 h of lunch.
C10_FourPunchDay ==
    card.ok => \A date \in DOMAIN card.dailyReport :
        LET logs == card.dailyReport[date].logs IN
            /\ (/\ FourPunchDay(logs)
                /\ TimeOf(logs, "clock-in") <= TimeOf(logs, "lunch-out")
                /\ TimeOf(logs, "lunch-out") <= TimeOf(logs, "lunch-in")
                /\ TimeOf(logs, "lunch-in") <= TimeOf(logs, "clock-out"))
                    => FourPunchTimes(card.dailyReport[date])
            /\ ExampleDay(logs)
                    => /\ card.dailyReport[date].workingTime = 8 * HourMs
                       /\ card.dailyReport[date].lunchTime = HourMs

\* C10 amended: a day of clock-in@a, lunch-out@b, lunch-in@c, clock-out@d
\* with a < b < c < d has (b - a) + (d - c) worked and (c - b) of lunch;
\* 09:00, 12:00, 13:00, 17:00 gives 7 h worked and 1 h of lunch.
C10_FourPunchDayStrict ==
    card.ok => \A date \in DOMAIN card.dailyReport :
        LET logs == card.dailyReport[date].logs IN
            /\ (/\ FourPunchDay(logs)
                /\ TimeOf(logs, "clock-in") < TimeOf(logs, "lunch-out")
                /\ TimeOf(logs, "lunch-out") < TimeOf(logs, "lunch-in")
                /\ TimeOf(logs, "lunch-in") < TimeOf(logs, "clock-out"))
                    => FourPunchTimes(card.dailyReport[date])
            /\ ExampleDay(logs)
                    => /\ card.dailyReport[date].workingTime = 7 * HourMs
                       /\ card.dailyReport[date].lunchTime = HourMs

\* C10 witness: the timecard of a day of 09:00, 12:00, 13:00, 17:00.
C10_Witness ==
    /\ card.ok
    /\ 0 \in DOMAIN card.dailyReport
    /\ ExampleDay(card.dailyReport[0].logs)
    /\ FourPunchTimes(card.dailyReport[0])

\* The places in a day's logs of the punches that end a segment of work.
Closings(logs) == OfType(logs, "lunch-out") \cup OfType(logs, "clock-out")

\* The place of the day's last lunch-out or clock-out, 0 when it has none.
LastClosing(logs) ==
    IF Closings(logs) = {} THEN 0
    ELSE CHOOSE i \in Closings(logs) : \A j \in Closings(logs) : j <= i

\* workingTime after the first k turns of the loop over the day's logs.
WorkedUpTo(logs, k) ==
    ReplayFrom(SubSeq(logs, 1, k), 1,
               [workingTime |-> 0, lunchTime |-> 0,
                clockInTime |-> Null, lunchOutTime |-> Null]).workingTime

\* C11: a day's worked duration is what it was at the day's last lunch-out or
\* clock-out: the time after a clock-in or lunch-in with no later lunch-out
\* or clock-out that day adds nothing, and a day with no lunch-out and no
\* clock-out (a clock-in alone) has worked duration 0.
C11_OpenSegmentNotCredited ==
    card.ok => \A date \in DOMAIN card.dailyReport :
        LET day == card.dailyReport[date] IN
            /\ day.workingTime = WorkedUpTo(day.logs, LastClosing(day.logs))
            /\ Closings(day.logs) = {} => day.workingTime = 0

\* C11 witness: a day of clock-in@09:00, lunch-out@12:00, lunch-in@13:00 with
\* 3 h worked, and a next day of a clock-in alone with nothing worked.
C11_Witness ==
    /\ card.ok
    /\ DOMAIN card.dailyReport = {0, 1}
    /\ TypesOf(card.dailyReport[0].logs) = <<"clock-in", "lunch-out", "lunch-in">>
    /\ card.dailyReport[0].workingTime = 3 * HourMs
    /\ TypesOf(card.dailyReport[1].logs) = <<"clock-in">>
    /\ card.dailyReport[1].workingTime = 0

\* (worked / 3600000) * payRate in exact arithmetic, rounded half up to cents.
\* Whole seconds are divided by 1000 first, which gives the same quotient
\* with smaller numbers.
PayCents(total, payRate) ==
    IF total % 1000 = 0
    THEN ((total \div 1000) * payRate + (HourMs \div 2000)) \div (HourMs \div 1000)
    ELSE (total * payRate + (HourMs \div 2)) \div HourMs

\* C13 as claimed: totalPay is (totalWorkingTime / 3,600,000) times the pay
\* rate, rounded to two decimals and written with two decimals; 8 hours at
\* 25.00 give "200.00".
C13_PayRoundedToCents ==
    card.ok =>
        /\ card.totalPay = ToFixed(PayCents(card.totalWorkingTime, card.employee.payRate))
        /\ (card.totalWorkingTime = 8 * HourMs /\ card.employee.payRate = 2500)
                => card.totalPay = "200.00"

\* C12: totalPay is a function of totalWorkingTime and the pay rate: it is
\* their product in hours, written with two decimals, and two timecards of
\* one employee with the same totalWorkingTime have the same totalPay
\* whatever their lunches are.
C12_PayFromWorkedTimeOnly ==
    /\ [](card.ok => card.totalPay =
            ToFixed(ToFixedCents(TotalPay(card.totalWorkingTime, card.employee.payRate))))
    /\ [][(/\ card.ok /\ card'.ok
           /\ card'.employee = card.employee
           /\ card'.totalWorkingTime = card.totalWorkingTime)
                => card'.totalPay = card.totalPay]_vars

\* C12 witness: a timecard of 3 h worked and 1 h of lunch paid "75.00", where
\* a shorter range gives a timecard of the same 3 h worked, no lunch and the
\* same pay.
C12_Witness ==
    /\ card.ok
    /\ card.totalWorkingTime = 3 * HourMs
    /\ SumLunch(card.dailyReport, DOMAIN card.dailyReport) = HourMs
    /\ card.totalPay = "75.00"
    /\ \E f \in Orderings(clockLogs, Selected(clockLogs, "e1", 0, 12 * HourMs)) :
            LET other == TimeCardOf(employees["e1"],
                            [k \in DOMAIN f |-> clockLogs[f[k]]], 0, 12 * HourMs)
            IN /\ other.totalWorkingTime = card.totalWorkingTime
               /\ SumLunch(other.dailyReport, DOMAIN other.dailyReport) = 0
               /\ other.totalPay = card.totalPay

\* The ids a timecard is asked for, and the answer for a missing employee.
CardIds == EmpIds \cup {"e3"}
NotFound == [ok |-> FALSE, message |-> "Employee not found"]

\* C14: a request of the timecard for an id that is not in clock_employees
\* is answered "Employee not found" and with no timecard; a request for an
\* id that is there is answered with a timecard.
C14_TimeCardNotFound ==
    /\ [][\A id \in CardIds : \A r \in CardRanges :
            (id \notin DOMAIN employees /\ TimeCard(id, r[1], r[2]))
                => card' = NotFound]_vars
    /\ [](card.ok => \E id \in DOMAIN employees : card.employee = employees[id])

\* C14 witness: the timecard of e3, who is not in the table, was refused.
C14_Witness ==
    /\ "e3" \notin DOMAIN employees
    /\ card = NotFound

\* C15 as claimed: a request of the timecard for an id that is not in
\* clock_employees is not refused: it is answered with a timecard worked out
\* from the punches of that id, the pay rate taken as zero and totalPay
\* "0.00".
C15_ToleratesMissingEmployee ==
    [][\A id \in CardIds : \A r \in CardRanges :
        (id \notin DOMAIN employees /\ TimeCard(id, r[1], r[2]))
            => (card'.ok /\ card'.totalPay = "0.00")]_vars

\* The employee ids of the entries of an export, in their order.
EntryIds(entries) == [k \in 1..Len(entries) |-> entries[k].employeeId]

\* The entry is what getEmployeeTimeCard gives for its employee and the
\* range of the export on the tables as they are.
EntryIsTimeCard(entry) ==
    /\ entry.employeeId \in DOMAIN employees
    /\ \E f \in Orderings(clockLogs, Selected(clockLogs, entry.employeeId,
                                               export.startDate, export.endDate)) :
            LET timeCard == TimeCardOf(employees[entry.employeeId],
                                [k \in DOMAIN f |-> clockLogs[f[k]]],
                                export.startDate, export.endDate)
            IN /\ entry.totalPay = timeCard.totalPay
               /\ entry.dailyBreakdown = timeCard.dailyReport

\* C16: with nothing written meanwhile, the export of a table of N employees
\* answers N entries, one per employee and in the order getClockEmployees
\* listed them, and the totalPay and dailyBreakdown of each entry are those
\* of getEmployeeTimeCard for that employee over the same range.
C16_ExportMatchesTimeCards ==
    export.pc = "done" =>
        /\ export.result.code = 200
        /\ Len(export.result.employees) = Cardinality(DOMAIN employees)
        /\ {export.result.employees[k].employeeId :
                k \in 1..Len(export.result.employees)} = DOMAIN employees
        /\ EntryIds(export.result.employees) =
                [k \in 1..Len(export.employees) |-> export.employees[k].id]
        /\ \A k \in 1..Len(export.result.employees) :
                EntryIsTimeCard(export.result.employees[k])

\* C16 witness: the export of both employees, e2 listed first, e1 with 3 h
\* of the day inside the range and paid "75.00".
C16_Witness ==
    /\ export.pc = "done" /\ export.result.code = 200
    /\ EntryIds(export.result.employees) = <<"e2", "e1">>
    /\ export.endDate = 12 * HourMs
    /\ Len(clockLogs) = 3
    /\ export.result.employees[2].totalPay = "75.00"
    /\ export.result.employees[2].totalHours = "3.00"

\* C17: the export fails as a whole when the timecard of one employee of
\* the list fails: the answer is the error alone, with none of the entries
\* worked out before, and an export that succeeds has an entry for every
\* employee listed.
C17_ExportFailFast ==
    /\ [][(/\ export.pc = "employee"
           /\ export'.pc # "employee"
           /\ export.employees[export.next].id \notin DOMAIN employees)
                => /\ export'.pc = "done"
                   /\ export'.result = ExportFailed]_vars
    /\ [](export.pc = "done" =>
            \/ export.result = ExportFailed
            \/ /\ export.result.code = 200
               /\ EntryIds(export.result.employees) =
                    [k \in 1..Len(export.employees) |-> export.employees[k].id])

\* C17 witness: e2 was deleted after the listing; the export failed at e2
\* after it had worked out the entry of e1.
C17_Witness ==
    /\ export.pc = "done" /\ export.result = ExportFailed
    /\ Len(export.exportData) = 1
    /\ export.exportData[1].employeeId = "e1"
    /\ export.employees[2].id = "e2"
    /\ "e2" \notin DOMAIN employees

\* C18: a step of getEmployeeTimeCard or of exportAllHours leaves
\* clock_employees and clock_logs as they are, also between the steps of a
\* clockAction.
C18_PureReads ==
    [][(card' # card \/ export' # export)
            => (employees' = employees /\ clockLogs' = clockLogs)]_vars

\* C18 witness: the export and a timecard have answered while a clockAction
\* is between its two writes.
C18_Witness ==
    /\ pc[1] = "insert"
    /\ export.pc = "done" /\ export.result.code = 200
    /\ Len(export.result.employees) = 2
    /\ card.ok
    /\ Len(clockLogs) = 1

\* C19 as claimed: the delete of an employee who has punches succeeds: the
\* employee's row is gone and clock_logs is as it was.
C19_DeleteKeepsPunches ==
    [][\A id \in EmpIds :
        (/\ id \in DOMAIN employees
         /\ RowsOf(clockLogs, id) # {}
         /\ DeleteRequest(id))
            => /\ removed'.code = 204
               /\ id \notin DOMAIN employees'
               /\ clockLogs' = clockLogs]_vars

\* The timestamps of the punches never go down (strict: always go up) in
\* the order the punches were appended.
Ascending(seq, strict) ==
    \A i, j \in 1..Len(seq) :
        i < j => IF strict THEN seq[i].timestamp < seq[j].timestamp
                 ELSE seq[i].timestamp <= seq[j].timestamp

\* The look-up of a call in status working takes the employee's last
\* appended punch, and the call goes for clock-out exactly when that punch
\* is a lunch-in.
ConsultsLastAppended(p) ==
    LET punches == PunchesOf(emp[p])
        appended == punches[Len(punches)].type
    IN /\ last'[p] = appended
       /\ Decide(stat[p], last'[p]).logType =
            (IF appended = "lunch-in" THEN "clock-out" ELSE "lunch-out")

\* C20 as claimed: when the timestamps of the employee's punches never go
\* down in the order of appending (equal ones allowed), the look-up of a call
\* in status working takes the last appended punch.
C20_LastAppendedAllowingTies ==
    [][\A p \in Procs :
        (/\ pc[p] = "lookup" /\ pc'[p] = "update"
         /\ PunchesOf(emp[p]) # << >>
         /\ Ascending(PunchesOf(emp[p]), FALSE))
            => ConsultsLastAppended(p)]_vars

\* C20 amended: the same when each punch of the employee has a timestamp
\* strictly greater than all the punches appended before it.
C20_LastAppendedStrict ==
    [][\A p \in Procs :
        (/\ pc[p] = "lookup" /\ pc'[p] = "update"
         /\ PunchesOf(emp[p]) # << >>
         /\ Ascending(PunchesOf(emp[p]), TRUE))
            => ConsultsLastAppended(p)]_vars

\* C20 witness: a call found e1 working, looked up the lunch-in appended
\* last behind a clock-in and a lunch-out of earlier times, and goes for
\* clock-out.
C20_Witness ==
    /\ pc[1] = "update" /\ emp[1] = "e1" /\ stat[1] = "working"
    /\ TypesOf(PunchesOf("e1")) = <<"clock-in", "lunch-out", "lunch-in">>
    /\ Ascending(PunchesOf("e1"), TRUE)
    /\ last[1] = "lunch-in"
    /\ Decide(stat[1], last[1]).logType = "clock-out"

\* The call stopped between its writes with a punch of its action in the log
\* and the status of the employee still the one it read.
PunchWithoutStatus(p) ==
    /\ pc[p] = "stopped"
    /\ emp[p] \in DOMAIN employees
    /\ employees[emp[p]].status = stat[p]
    /\ \E i \in RowsOf(clockLogs, emp[p]) :
            clockLogs[i].type = Decide(stat[p], last[p]).logType

\* C21 as claimed: a call of clockAction that stops between its two writes
\* can leave its punch in the log with the status not advanced: some call
\* comes to stop that way.
C21_CrashLeavesPunchWithoutStatus == <>(\E p \in Procs : PunchWithoutStatus(p))

\* C21 amended: the status is written first and the punch second, so a call
\* that stops between its two writes has advanced the status and added no
\* punch, and a punch is only ever added by a call whose status write is
\* done; no stopped call leaves a punch with the status not advanced.
C21_StatusBeforePunch ==
    /\ [][\A p \in Procs :
            (pc[p] # "stopped" /\ pc'[p] = "stopped")
                => /\ pc[p] = "insert"
                   /\ upd[p] # NoRow
                   /\ employees[emp[p]].status = Decide(stat[p], last[p]).newStatus
                   /\ clockLogs' = clockLogs]_vars
    /\ [][Len(clockLogs') > Len(clockLogs)
            => \E p \in Procs :
                /\ pc[p] = "insert" /\ pc'[p] = "done"
                /\ employees[emp[p]].status = Decide(stat[p], last[p]).newStatus]_vars
    /\ [](\A p \in Procs : ~PunchWithoutStatus(p))

\* C21 witness: a call that read e1 working behind a clock-in has stopped
\* between its writes: e1 is on lunch and the log holds no lunch-out.
C21_Witness ==
    /\ pc[1] = "stopped" /\ stat[1] = "working" /\ last[1] = "clock-in"
    /\ employees["e1"].status = "on-lunch"
    /\ TypesOf(PunchesOf("e1")) = <<"clock-in">>

\* One turn of the replay as claimed: only the additions are guarded, the
\* cursors are set by every lunch-out and lunch-in.
StepSettingCursors(st, log) ==
    CASE log.type = "clock-in" -> [st EXCEPT !.clockInTime = log.timestamp]
      [] log.type = "lunch-out" ->
            [st EXCEPT !.workingTime = IF Truthy(st.clockInTime)
                                       THEN @ + (log.timestamp - st.clockInTime) ELSE @,
                       !.lunchOutTime = log.timestamp]
      [] log.type = "lunch-in" ->
            [st EXCEPT !.lunchTime = IF Truthy(st.lunchOutTime)
                                     THEN @ + (log.timestamp - st.lunchOutTime) ELSE @,
                       !.clockInTime = log.timestamp]
      [] log.type = "clock-out" ->
            [st EXCEPT !.workingTime = IF Truthy(st.clockInTime)
                                       THEN @ + (log.timestamp - st.clockInTime) ELSE @]
      [] OTHER -> st

RECURSIVE ReplaySettingCursors(_, _, _)
ReplaySettingCursors(dayLogs, i, st) ==
    IF i > Len(dayLogs) THEN st
    ELSE ReplaySettingCursors(dayLogs, i + 1, StepSettingCursors(st, dayLogs[i]))

\* C22 as claimed: in the replay of a day only the additions are guarded: a
\* lunch-out sets lunchOutTime and a lunch-in sets clockInTime whatever the
\* other cursor is, so a day of lunch-in@t1, clock-out@t2 has t2 - t1 worked
\* and a day of lunch-out@t1, lunch-in@t2 has t2 - t1 of lunch.
C22_CursorsSetUnguarded ==
    card.ok => \A date \in DOMAIN card.dailyReport :
        LET day == card.dailyReport[date]
            times == ReplaySettingCursors(day.logs, 1,
                        [workingTime |-> 0, lunchTime |-> 0,
                         clockInTime |-> Null, lunchOutTime |-> Null])
        IN /\ day.workingTime = times.workingTime
           /\ day.lunchTime = times.lunchTime
           /\ TypesOf(day.logs) = <<"lunch-in", "clock-out">>
                => day.workingTime = day.logs[2].timestamp - day.logs[1].timestamp
           /\ TypesOf(day.logs) = <<"lunch-out", "lunch-in">>
                => day.lunchTime = day.logs[2].timestamp - day.logs[1].timestamp

\* The range a timecard of SpecRange was asked for, from its two dates.
RangeOf(c) ==
    CHOOSE r \in DayRanges : DateOf(r[1]) = c.startDate /\ DateOf(r[2]) = c.endDate

\* The punches of e1 inside the range, both ends included.
InRange(r) ==
    {i \in 1..Len(clockLogs) : /\ clockLogs[i].employeeId = "e1"
                               /\ r[1] <= clockLogs[i].timestamp
                               /\ clockLogs[i].timestamp <= r[2]}

\* The places of the punch x in a day's logs.
OfPunch(logs, x) == {i \in 1..Len(logs) : logs[i] = x}

\* How often the punch x is among the logs of the dailyReport.
RECURSIVE TimesListed(_, _, _)
TimesListed(report, dates, x) ==
    IF dates = {} THEN 0
    ELSE LET d == CHOOSE y \in dates : TRUE
         IN Cardinality(OfPunch(report[d].logs, x)) + TimesListed(report, dates \ {d}, x)

\* C23: every punch in range is in the entry of the UTC date of its
\* timestamp and in no other, the logs of an entry are in ascending order of
\* timestamp, and the times of an entry are those of the replay of its logs
\* alone from both cursors unset: a segment that crosses midnight counts for
\* neither day.
C23_GroupedByUtcDate ==
    card.ok =>
        /\ DOMAIN card.dailyReport =
                {DateOf(clockLogs[i].timestamp) : i \in InRange(RangeOf(card))}
        /\ \A i \in InRange(RangeOf(card)) :
                TimesListed(card.dailyReport, DOMAIN card.dailyReport, clockLogs[i])
                    = Cardinality({j \in InRange(RangeOf(card)) : clockLogs[j] = clockLogs[i]})
        /\ \A date \in DOMAIN card.dailyReport :
                LET day == card.dailyReport[date] IN
                    /\ \A i \in 1..Len(day.logs) : DateOf(day.logs[i].timestamp) = date
                    /\ Ascending(day.logs, FALSE)
                    /\ day.workingTime = WorkedUpTo(day.logs, Len(day.logs))
                    /\ day.lunchTime =
                        ReplayFrom(day.logs, 1,
                            [workingTime |-> 0, lunchTime |-> 0,
                             clockInTime |-> Null, lunchOutTime |-> Null]).lunchTime

\* C23 witness: a shift from 17:00 of the first day to 17:00 of the second:
\* the clock-in stands alone in the first entry, the clock-out alone in the
\* second, and nothing is worked on either day.
C23_Witness ==
    /\ card.ok
    /\ DOMAIN card.dailyReport = {0, 1}
    /\ card.dailyReport[0].logs =
            << [employeeId |-> "e1", type |-> "clock-in", timestamp |-> 17 * HourMs] >>
    /\ card.dailyReport[1].logs =
            << [employeeId |-> "e1", type |-> "clock-out", timestamp |-> 41 * HourMs] >>
    /\ card.dailyReport[0].workingTime = 0
    /\ card.dailyReport[1].workingTime = 0
    /\ card.totalWorkingTime = 0

\* C24: the punches of a timecard are the punches of the employee with
\* start <= timestamp <= end, both ends included, and no others; dailyReport
\* and totalWorkingTime are those of these punches alone, whatever punches
\* of other employees or outside the range the log holds.
C24_RangeInclusive ==
    card.ok =>
        LET r == RangeOf(card) IN
            /\ \A date \in DOMAIN card.dailyReport :
                    \A i \in 1..Len(card.dailyReport[date].logs) :
                        LET log == card.dailyReport[date].logs[i] IN
                            /\ log.employeeId = "e1"
                            /\ r[1] <= log.timestamp /\ log.timestamp <= r[2]
            /\ \A i \in InRange(r) :
                    TimesListed(card.dailyReport, DOMAIN card.dailyReport, clockLogs[i]) > 0
            /\ \E f \in Orderings(clockLogs, InRange(r)) :
                    LET report == DailyReport([k \in DOMAIN f |-> clockLogs[f[k]]])
                    IN /\ card.dailyReport = report
                       /\ card.totalWorkingTime = SumWorking(report, DOMAIN report)

\* C24 witness: the range 12:00 to 17:00 on a log of clock-in@09:00,
\* lunch-out@12:00, clock-out@17:00: the two punches on the ends of the range
\* are listed, the clock-in is not, and nothing is worked.
C24_Witness ==
    /\ card.ok
    /\ Len(clockLogs) = 3
    /\ clockLogs[1] = [employeeId |-> "e1", type |-> "clock-in", timestamp |-> 9 * HourMs]
    /\ DOMAIN card.dailyReport = {0}
    /\ card.dailyReport[0].logs =
            << [employeeId |-> "e1", type |-> "lunch-out", timestamp |-> 12 * HourMs],
               [employeeId |-> "e1", type |-> "clock-out", timestamp |-> 17 * HourMs] >>
    /\ card.totalWorkingTime = 0

\* C25: in a log written by calls of clockAction one after the other, each
\* punch stamped later than the employee's earlier ones, every clock-out of
\* an employee comes right behind a lunch-in of that employee and every
\* clock-in that is not the employee's last punch is followed by a lunch-out.
C25_NoClockOutWithoutLunch ==
    \A e \in EmpIds :
        LET types == TypesOf(PunchesOf(e)) IN
            Ascending(PunchesOf(e), TRUE) =>
                \A i \in 1..Len(types) :
                    /\ types[i] = "clock-out" => (i > 1 /\ types[i - 1] = "lunch-in")
                    /\ (types[i] = "clock-in" /\ i < Len(types))
                            => types[i + 1] = "lunch-out"

\* C25 witness: e2 has gone from clock-in to clock-out through a lunch, its
\* four punches at four times.
C25_Witness ==
    /\ Quiet
    /\ TypesOf(PunchesOf("e2")) = CycleTypes
    /\ Ascending(PunchesOf("e2"), TRUE)
    /\ employees["e2"].status = "inactive"

\* The status that goes with the employee's last punch.
StatusForLog(punches) ==
    IF punches = << >> THEN "inactive"
    ELSE CASE punches[Len(punches)].type = "clock-out" -> "inactive"
           [] punches[Len(punches)].type = "lunch-out" -> "on-lunch"
           [] OTHER -> "working"

\* C26: an employee that began inactive with no punches and whose punches
\* were written by completed calls of clockAction, one after the other at
\* strictly increasing times with no other writer of the status, is inactive
\* iff it has no punch or its last punch is a clock-out, working iff its last
\* punch is a clock-in or a lunch-in, on-lunch iff its last punch is a
\* lunch-out.
C26_StatusAgreesWithLog ==
    \A e \in EmpIds :
        (pc[1] \in {"idle", "done"} /\ Ascending(PunchesOf(e), TRUE))
            => /\ e \in DOMAIN employees
               /\ employees[e].status = StatusForLog(PunchesOf(e))

\* C26 witness: a third call for e1 has completed, the last punch is the
\* lunch-in and e1 is working again.
C26_Witness ==
    /\ pc[1] = "done" /\ emp[1] = "e1"
    /\ TypesOf(PunchesOf("e1")) = <<"clock-in", "lunch-out", "lunch-in">>
    /\ Ascending(PunchesOf("e1"), TRUE)
    /\ employees["e1"].status = "working"

\* C27: on a punch log written by calls of clockAction alone, one after the
\* other or interleaved for the same employee, every day of a timecard has
\* workingTime >= 0, lunchTime >= 0 and workingTime + lunchTime at most the
\* time from the day's first punch to its last.
C27_NoTimeCountedTwice ==
    card.ok =>
        \A date \in DOMAIN card.dailyReport :
            LET day == card.dailyReport[date] IN
                /\ day.workingTime >= 0
                /\ day.lunchTime >= 0
                /\ day.workingTime + day.lunchTime
                        <= day.logs[Len(day.logs)].timestamp - day.logs[1].timestamp

\* C28: starting from items with reservedStock = 0, after any sequence of
\* checkouts (POST /api/checkout, POST /api/items/:id/checkout), check-ins
\* (POST /api/items/:id/checkin), removeOrderItem and deleteOrder, every
\* item has reservedStock >= 0.
C28_ReservedStockNeverNegative ==
    \A id \in DOMAIN items : items[id].reservedStock >= 0

\* C29: a POST /api/checkout answered 400 because one of its items is
\* unknown or short of available stock leaves the reservedStock of every
\* item, the order items and the orders as they were before the request.
C29_RejectedCheckoutChangesNothing ==
    [][\A body \in CheckoutBodies :
            (/\ answer'.route = "checkout"
             /\ answer'.code = 400
             /\ answer'.message \in {"Item unavailable", "Insufficient stock"}
             /\ Checkout(body))
                => /\ \A id \in DOMAIN items :
                        items'[id].reservedStock = items[id].reservedStock
                   /\ orderItems' = orderItems
                   /\ orders' = orders]_vars

\* C30: a checkout of quantity q of an item by POST /api/items/:id/checkout
\* followed by a check-in of the same q of the item leaves the item's
\* currentStock, reservedStock and available stock as they were before the
\* checkout.
C30_CheckInUndoesCheckout ==
    [][\A id \in ItemIds, q \in 1..MaxQuantity :
            (/\ answer.route = "quick checkout"
             /\ answer.code = 201
             /\ answer.itemId = id
             /\ answer.quantity = q
             /\ CheckIn(id, q)
             /\ answer'.code = 200)
                => /\ items'[id].currentStock = answer.item.currentStock
                   /\ items'[id].reservedStock = answer.item.reservedStock
                   /\ items'[id].currentStock - items'[id].reservedStock
                        = answer.item.currentStock - answer.item.reservedStock]_vars

====
